---- MODULE Spec2Model ----
(***************************************************************************)
(* DevCooker i18n tools: locale loader, resolver, writer and the session   *)
(* that owns the loaded locale data (src/src/i18nTools).                   *)
(*                                                                         *)
(* Encoding of JavaScript data.                                            *)
(*  - A string that the code splits on "." (a translation key, a property  *)
(*    name of a flattened map) is the sequence of its dot-free segments:   *)
(*    "home.title" is <<"home", "title">>, "greet" is <<"greet">> and the  *)
(*    empty string is <<"">>.  key.split(".") is then the sequence of the  *)
(*    one-segment names, and `${prefix}.${key}` is prefix \o key.          *)
(*  - A JSON value is a tagged record: Str(s), Null, Arr(seq), Obj(f),     *)
(*    and Undefined for a missing property.  Obj(f) holds a function from  *)
(*    property names to values.  The documents in the locale files have    *)
(*    dot-free property names, so no two properties flatten to the same    *)
(*    path and the property order of a document decides nothing.           *)
(*  - An object whose key order the code depends on (localeFiles,          *)
(*    localeData: for...in and Object.keys) is a sequence of [k, v]        *)
(*    entries in insertion order.                                          *)
(***************************************************************************)
EXTENDS Integers, Sequences, FiniteSets, TLC

VARIABLES
  fs,               \* the disk: path -> content of the file
  listing,          \* the order in which a directory walk yields the paths
  config,           \* workspace setting devCooker.i18n.localesPaths
  workspaceFolders, \* vscode.workspace.workspaceFolders
  localeFiles,      \* index.js: let localeFiles
  localeData,       \* index.js: let localeData
  translationCache, \* translationProvider.js: const translationCache
  statusBarItem,    \* index.js: let statusBarItem (its text, or "null")
  hoverProvider,    \* index.js: let hoverProvider, with the tree it closed over
  isInitialized,    \* index.js: let isInitialized
  isInitializing,   \* index.js: let isInitializing
  context,          \* index.js: let context ("null" or "set")
  tasks,            \* the asynchronous calls in flight, each with its locals
  console,          \* what console.warn / console.error have reported
  call              \* the call under observation: its arguments and result

\* the module state of index.js besides the locale data
session == <<workspaceFolders, statusBarItem, hoverProvider, isInitialized,
             isInitializing, context>>

vars == <<fs, listing, config, localeFiles, localeData, translationCache,
          session, tasks, console, call>>

\* let hoverProvider before registerHoverProvider has been called
NoProvider == [registered |-> FALSE, localeData |-> <<>>]

\* the state of index.js before initialize has run
NotInitialized ==
  /\ workspaceFolders = <<"work">>
  /\ statusBarItem = "null"
  /\ hoverProvider = NoProvider
  /\ isInitialized = FALSE
  /\ isInitializing = FALSE
  /\ context = "null"
  /\ tasks = <<>>

----------------------------------------------------------------------------
(* JavaScript values *)

Str(s) == [t |-> "str", s |-> s]
Null == [t |-> "null"]
Arr(a) == [t |-> "arr", a |-> a]
Obj(f) == [t |-> "obj", o |-> f]
Undefined == [t |-> "undef"]
EmptyFn == [x \in {} |-> Undefined]
EmptyObj == Obj(EmptyFn)

\* the empty string, as a sequence of segments
EmptyStr == <<"">>

\* typeof v === "object"
TypeofObject(v) == v.t \in {"obj", "arr", "null"}

\* Array.isArray(v)
IsArray(v) == v.t = "arr"

\* !!v
Truthy(v) ==
  CASE v.t = "str" -> v.s # ""
    [] v.t \in {"obj", "arr"} -> TRUE
    [] OTHER -> FALSE

\* the property names of the indices of an array
IndexNames == << <<"0">>, <<"1">> >>

\* k is the name of an array index
IsArrayIndex(k) == \E i \in 1..Len(IndexNames) : IndexNames[i] = k

\* the characters of the strings of the universe that the code takes apart
Chars(s) ==
  CASE s = "t" -> <<"t">>
    [] s = "$t" -> <<"$", "t">>
    [] s = "$st" -> <<"$", "s", "t">>
    [] s = "t(" -> <<"t", "(">>
    [] s = "foo" -> <<"f", "o", "o">>
    [] s = "this" -> <<"t", "h", "i", "s">>
    [] s = "i18n" -> <<"i", "1", "8", "n">>
    [] s = "global" -> <<"g", "l", "o", "b", "a", "l">>
    [] s = "translate" -> <<"t", "r", "a", "n", "s", "l", "a", "t", "e">>
    [] s = "i18n.global.t" ->
         <<"i", "1", "8", "n", ".", "g", "l", "o", "b", "a", "l", ".", "t">>
    [] s = "Hi" -> <<"H", "i">>
    [] s = "H" -> <<"H">>
    [] s = "i" -> <<"i">>
    [] s = "" -> <<>>
    [] s = "en" -> <<"e", "n">>
    [] s = "fr" -> <<"f", "r">>
    [] s = "es" -> <<"e", "s">>
    [] s = "me" -> <<"m", "e">>
    [] s = "zh-CN" -> <<"z", "h", "-", "C", "N">>
    [] s = "zh-cn" -> <<"z", "h", "-", "c", "n">>
    [] s = "EN" -> <<"E", "N">>
    [] s = "index" -> <<"i", "n", "d", "e", "x">>
    [] s = "Index" -> <<"I", "n", "d", "e", "x">>
    [] s = "common" -> <<"c", "o", "m", "m", "o", "n">>
    [] s = "app" -> <<"a", "p", "p">>
    [] s = ".json" -> <<".", "j", "s", "o", "n">>
    [] s = ".js" -> <<".", "j", "s">>
    [] s = ".ts" -> <<".", "t", "s">>

\* the own enumerable property names of v (for...in with hasOwnProperty, Object.keys)
OwnKeys(v) ==
  CASE v.t = "obj" -> DOMAIN v.o
    [] v.t = "arr" -> {IndexNames[i] : i \in 1..Len(v.a)}
    [] OTHER -> {}

\* v[k], for v that is not undefined or null.  A string has its characters
\* at its indices (its length and the methods of String.prototype are not
\* among the names of the universe)
Get(v, k) ==
  CASE v.t = "obj" -> IF k \in DOMAIN v.o THEN v.o[k] ELSE Undefined
    [] v.t = "arr" -> IF \E i \in 1..Len(v.a) : IndexNames[i] = k
                      THEN v.a[CHOOSE i \in 1..Len(v.a) : IndexNames[i] = k]
                      ELSE Undefined
    [] v.t = "str" -> IF \E i \in 1..Len(Chars(v.s)) : IndexNames[i] = k
                      THEN Str(Chars(v.s)[CHOOSE i \in 1..Len(Chars(v.s)) : IndexNames[i] = k])
                      ELSE Undefined
    [] OTHER -> Undefined

\* k in v, for an object or an array v
HasProp(v, k) == k \in OwnKeys(v)

\* v[k] = x, for v that is not undefined or null.  On a plain object the
\* property is set; on an array an index sets the element, the elements
\* skipped before it being holes (undefined); a property of an array that
\* is no index is not among its elements and JSON.stringify leaves it out;
\* an assignment to a property of a primitive is dropped (index.js is not
\* in strict mode).
Put(v, k, x) ==
  CASE v.t = "obj" ->
         Obj([n \in (DOMAIN v.o) \cup {k} |-> IF n = k THEN x ELSE v.o[n]])
    [] v.t = "arr" ->
         IF \E i \in 1..Len(IndexNames) : IndexNames[i] = k
         THEN LET at == CHOOSE i \in 1..Len(IndexNames) : IndexNames[i] = k
                  n == IF at > Len(v.a) THEN at ELSE Len(v.a)
              IN  Arr([j \in 1..n |-> IF j = at THEN x
                                      ELSE IF j <= Len(v.a) THEN v.a[j]
                                      ELSE Undefined])
         ELSE v
    [] OTHER -> v

\* the value of the text JSON.stringify(v, null, 2): a property whose value
\* is undefined is left out, an element that is undefined is written null
RECURSIVE JSONstringify(_)
JSONstringify(v) ==
  CASE v.t = "obj" ->
         Obj([n \in {m \in DOMAIN v.o : v.o[m].t # "undef"} |-> JSONstringify(v.o[n])])
    [] v.t = "arr" ->
         Arr([j \in 1..Len(v.a) |-> IF v.a[j].t = "undef" THEN Null
                                    ELSE JSONstringify(v.a[j])])
    [] OTHER -> v

\* parts.slice(1)
Slice1(parts) == IF Len(parts) = 0 THEN parts ELSE Tail(parts)

----------------------------------------------------------------------------
(* Ordered objects: sequences of [k, v] entries in insertion order *)

OKeys(m) == [i \in 1..Len(m) |-> m[i].k]
OHas(m, k) == \E i \in 1..Len(m) : m[i].k = k
OGet(m, k) == m[CHOOSE i \in 1..Len(m) : m[i].k = k].v
OPut(m, k, v) ==
  IF OHas(m, k)
  THEN [i \in 1..Len(m) |-> IF m[i].k = k THEN [k |-> k, v |-> v] ELSE m[i]]
  ELSE Append(m, [k |-> k, v |-> v])

----------------------------------------------------------------------------
(* localeManager: deepMerge, flattenObject, setNestedValue *)

RECURSIVE deepMerge(_, _)

\* deepMerge without the tests for a falsy target or source
deepMergeUnguarded(target, source) ==
  IF ~TypeofObject(target) THEN source
  ELSE IF ~TypeofObject(source) THEN target
  ELSE Obj([k \in OwnKeys(target) \cup OwnKeys(source) |->
              IF k \in OwnKeys(source)
              THEN IF /\ TypeofObject(Get(source, k))
                      /\ ~IsArray(Get(source, k))
                      /\ TypeofObject(Get(target, k))
                      /\ ~IsArray(Get(target, k))
                   THEN deepMerge(Get(target, k), Get(source, k))
                   ELSE Get(source, k)
              ELSE Get(target, k)])

deepMerge(target, source) ==
  IF ~Truthy(target) \/ ~TypeofObject(target) THEN source
  ELSE IF ~Truthy(source) \/ ~TypeofObject(source) THEN target
  ELSE Obj([k \in OwnKeys(target) \cup OwnKeys(source) |->
              IF k \in OwnKeys(source)
              THEN IF /\ TypeofObject(Get(source, k))
                      /\ ~IsArray(Get(source, k))
                      /\ TypeofObject(Get(target, k))
                      /\ ~IsArray(Get(target, k))
                   THEN deepMerge(Get(target, k), Get(source, k))
                   ELSE Get(source, k)
              ELSE Get(target, k)])

\* the subsequence of seq whose elements are in keep
RECURSIVE SelectIn(_, _)
SelectIn(seq, keep) ==
  IF Len(seq) = 0 THEN <<>>
  ELSE IF seq[1] \in keep THEN <<seq[1]>> \o SelectIn(Tail(seq), keep)
  ELSE SelectIn(Tail(seq), keep)

\* the names of the set in some order
RECURSIVE SomeOrder(_)
SomeOrder(names) ==
  IF names = {} THEN <<>>
  ELSE LET n == CHOOSE x \in names : TRUE
       IN  <<n>> \o SomeOrder(names \ {n})

\* the order in which for...in, Object.keys and Object.assign go through
\* properties that were created in the order inserted: the array indices
\* first, ascending, then the other names in the order of their creation
OwnPropertyKeys(inserted) ==
  SelectIn(IndexNames, {inserted[i] : i \in 1..Len(inserted)})
    \o SelectSeq(inserted, LAMBDA k : ~IsArrayIndex(k))

\* the property names of v as for...in goes through them, when the text
\* of v has the properties named in order in that order (and any others
\* after them)
KeysOf(v, order) ==
  OwnPropertyKeys(SelectIn(order, OwnKeys(v))
                    \o SomeOrder(OwnKeys(v) \ {order[i] : i \in 1..Len(order)}))

\* Object.assign(result, source), keys being the keys of source in order
RECURSIVE ObjectAssign(_, _, _)
ObjectAssign(result, source, keys) ==
  IF Len(keys) = 0 THEN result
  ELSE ObjectAssign(OPut(result, keys[1], OGet(source, keys[1])), source, Tail(keys))

\* a plausible slip: the prefix is not handed down, so the key of a nested
\* property is just its own name
RECURSIVE flattenEntriesNoPrefix(_, _, _)
flattenEntriesNoPrefix(obj, prefix, order) ==
  LET RECURSIVE loop(_, _)
      loop(keys, result) ==
        IF Len(keys) = 0 THEN result
        ELSE LET key == keys[1]
                 value == Get(obj, key)
                 nestedKeys == flattenEntriesNoPrefix(value, EmptyStr, order)
             IN  loop(Tail(keys),
                      IF /\ TypeofObject(value)
                         /\ value # Null
                         /\ ~IsArray(value)
                         /\ OwnKeys(value) # {}
                      THEN OPut(ObjectAssign(result, nestedKeys,
                                             OwnPropertyKeys(OKeys(nestedKeys))),
                                key, value)
                      ELSE OPut(result, key, value))
  IN  IF ~Truthy(obj) \/ ~TypeofObject(obj) THEN <<>>
      ELSE loop(KeysOf(obj, order), <<>>)

\* flattenObject: the properties of the object it returns, in the order of
\* their creation.  The keys below a property are created before the key
\* of the property itself, which holds the nested object as it is.
RECURSIVE flattenEntries(_, _, _)
flattenEntries(obj, prefix, order) ==
  LET RECURSIVE loop(_, _)
      loop(keys, result) ==
        IF Len(keys) = 0 THEN result
        ELSE LET key == keys[1]
                 value == Get(obj, key)
                 newKey == IF prefix # EmptyStr THEN prefix \o key ELSE key
                 nestedKeys == flattenEntries(value, newKey, order)
             IN  loop(Tail(keys),
                      IF /\ TypeofObject(value)
                         /\ value # Null
                         /\ ~IsArray(value)
                         /\ OwnKeys(value) # {}
                      THEN OPut(ObjectAssign(result, nestedKeys,
                                             OwnPropertyKeys(OKeys(nestedKeys))),
                                newKey, value)
                      ELSE OPut(result, newKey, value))
  IN  IF ~Truthy(obj) \/ ~TypeofObject(obj) THEN <<>>
      ELSE loop(KeysOf(obj, order), <<>>)

\* flattenObject, as the object it returns without the order of its keys
flattenObject(obj, prefix) ==
  LET result == flattenEntries(obj, prefix, <<>>)
  IN  Obj([k \in {result[i].k : i \in 1..Len(result)} |-> OGet(result, k)])

\* a TypeError that is thrown (a property of undefined or null is read or
\* written;  a method that the value has not is called)
TypeError == [t |-> "TypeError"]

\* the loop of setNestedValue and its last assignment, from current on:
\* current afterwards, or the TypeError thrown.  An intermediate that is no
\* plain object is replaced by {}; on a primitive the replacement is
\* dropped and the walk goes on with what the primitive has at the key
RECURSIVE setNestedFrom(_, _, _)
setNestedFrom(current, keys, value) ==
  IF current.t = "undef" THEN TypeError
  ELSE IF Len(keys) = 1 THEN Put(current, <<keys[1]>>, value)
  ELSE LET key == <<keys[1]>>
           old == Get(current, key)
           next == IF /\ ~Truthy(old) \/ ~TypeofObject(old) \/ IsArray(old)
                      /\ current.t \in {"obj", "arr"}
                   THEN EmptyObj ELSE old
           below == setNestedFrom(next, Tail(keys), value)
       IN  IF below.t = "TypeError" THEN TypeError ELSE Put(current, key, below)

\* setNestedValue: obj after the call (the function changes it in place),
\* or the TypeError it throws
setNestedValue(obj, keys, value) ==
  IF ~Truthy(obj) \/ Len(keys) = 0 THEN obj
  ELSE setNestedFrom(obj, keys, value)

----------------------------------------------------------------------------
(* translationProvider: getTranslationsForKey *)

\* the walk down the segments of the key (strategy 2), from current
RECURSIVE navigate(_, _)
navigate(current, parts) ==
  IF Len(parts) = 0 THEN [validPath |-> TRUE, current |-> current]
  ELSE IF \/ ~Truthy(current)
          \/ ~TypeofObject(current)
          \/ ~HasProp(current, <<parts[1]>>)
       THEN [validPath |-> FALSE, current |-> current]
       ELSE navigate(Get(current, <<parts[1]>>), Tail(parts))

\* a plausible slip: the trailing-segment fallback is left out
lookupInNamespaceNoFallback(flat, key) ==
  LET nav == navigate(flat, key)
  IN  IF Get(flat, key) # Undefined
      THEN [found |-> TRUE, value |-> Get(flat, key)]
      ELSE IF nav.validPath /\ nav.current # Undefined /\ ~TypeofObject(nav.current)
      THEN [found |-> TRUE, value |-> nav.current]
      ELSE [found |-> FALSE, value |-> Undefined]

\* one pass of the namespace loop: what it finds for key in one namespace
lookupInNamespace(flat, key) ==
  LET parts == key
      nav == navigate(flat, parts)
      lastPart == <<parts[Len(parts)]>>
  IN  IF Get(flat, key) # Undefined
      THEN [found |-> TRUE, value |-> Get(flat, key)]
      ELSE IF nav.validPath /\ nav.current # Undefined /\ ~TypeofObject(nav.current)
      THEN [found |-> TRUE, value |-> nav.current]
      ELSE IF Len(parts) > 1 /\ Get(flat, lastPart) # Undefined
      THEN [found |-> TRUE, value |-> Get(flat, lastPart)]
      ELSE [found |-> FALSE, value |-> Undefined]

\* a plausible slip: the loop runs on after a match, so the last match wins
RECURSIVE scanNamespacesNoBreak(_, _, _)
scanNamespacesNoBreak(namespaces, key, sofar) ==
  IF Len(namespaces) = 0 THEN sofar
  ELSE LET hit == lookupInNamespace(namespaces[1].v, key)
       IN  scanNamespacesNoBreak(Tail(namespaces), key,
                                 IF hit.found THEN hit ELSE sofar)

\* the namespace loop of one locale, with its found flag
RECURSIVE scanNamespaces(_, _, _)
scanNamespaces(namespaces, key, sofar) ==
  IF Len(namespaces) = 0 THEN sofar
  ELSE IF sofar.found THEN sofar
  ELSE scanNamespaces(Tail(namespaces), key,
                      lookupInNamespace(namespaces[1].v, key))

\* the lookup of getTranslationsForKey on a cache miss: locale -> value
lookupTranslations(key, data) ==
  IF key = EmptyStr THEN EmptyFn
  ELSE LET hit(i) == scanNamespaces(data[i].v, key,
                                    [found |-> FALSE, value |-> Undefined])
           locales == {data[i].k : i \in {j \in 1..Len(data) : hit(j).found}}
       IN  [l \in locales |->
              hit(CHOOSE i \in 1..Len(data) : data[i].k = l).value]

\* getTranslationsForKey: the result, and the cache after the call
getTranslationsForKey(key, data, cache) ==
  IF key \in DOMAIN cache
  THEN [ret |-> cache[key], cache |-> cache]
  ELSE LET result == lookupTranslations(key, data)
       IN  [ret |-> result,
            cache |-> [k \in (DOMAIN cache) \cup {key} |->
                         IF k = key THEN result ELSE cache[k]]]

----------------------------------------------------------------------------
(* index.js: the lookup editTranslation makes before it opens the editor *)

\* one pass of the namespace loop of editTranslation: the full key as a
\* property, the walk down the parts to a leaf that is no object, the last
\* part as a property
editLookupInNamespace(flat, key) ==
  LET parts == key
      walked == navigate(flat, parts)
      lastPart == <<parts[Len(parts)]>>
  IN  IF Get(flat, key) # Undefined
      THEN [foundInLocale |-> TRUE, value |-> Get(flat, key)]
      ELSE IF walked.validPath /\ walked.current # Undefined /\ ~TypeofObject(walked.current)
      THEN [foundInLocale |-> TRUE, value |-> walked.current]
      ELSE IF Len(parts) > 1 /\ Get(flat, lastPart) # Undefined
      THEN [foundInLocale |-> TRUE, value |-> Get(flat, lastPart)]
      ELSE [foundInLocale |-> FALSE, value |-> Undefined]

\* the namespace loop of one locale: it breaks at the first namespace that
\* holds the key
RECURSIVE editScanNamespaces(_, _)
editScanNamespaces(namespaces, key) ==
  IF Len(namespaces) = 0 THEN [foundInLocale |-> FALSE, value |-> Undefined]
  ELSE LET here == editLookupInNamespace(namespaces[1].v, key)
       IN  IF here.foundInLocale THEN here
           ELSE editScanNamespaces(Tail(namespaces), key)

\* the translations editTranslation passes to the editor: locale -> value
editTranslationLookup(key, data) ==
  IF key = EmptyStr THEN EmptyFn
  ELSE LET hit(i) == editScanNamespaces(data[i].v, key)
           locales == {data[i].k : i \in {j \in 1..Len(data) : hit(j).foundInLocale}}
       IN  [l \in locales |->
              hit(CHOOSE i \in 1..Len(data) : data[i].k = l).value]

\* getWebviewContent(key, translations, availableLocales, defaultLocale) of
\* the translation editor: a value that is falsy is shown as "", and
\* escapeHtml calls value.replace, which only a string has: a value that is
\* an object or an array throws.  createTranslationEditor has not added its
\* message handler then, and editTranslation shows the error and returns
getWebviewContent(translations) ==
  IF \E l \in DOMAIN translations :
       Truthy(translations[l]) /\ translations[l].t # "str"
  THEN TypeError
  ELSE [t |-> "html"]

----------------------------------------------------------------------------
(* Files.  A path is its directory segments from the root, the base name  *)
(* and the extension: /work/locales/en/common.json is                     *)
(* [dir |-> <<"work", "locales", "en">>, name |-> "common", ext |-> ".json"]. *)
(* The content of a file is what the parsers of the code make of it.      *)

Path(dir, name, ext) == [dir |-> dir, name |-> name, ext |-> ext]

\* JSON text of the value d
JsonDoc(d) == [fmt |-> "json", data |-> d]
\* text JSON.parse rejects
BadJson == [fmt |-> "badjson"]
\* JS/TS text that ends in  export default {...};  with the object literal
\* d as JSON.stringify writes it: the empty object is  {}
JsExportDefault(d) == [fmt |-> "exportDefault", data |-> d, blank |-> FALSE]
\* JS/TS text that ends in  export default { };  the empty object written
\* with white space between its braces
JsExportDefaultBlank == [fmt |-> "exportDefault", data |-> EmptyObj, blank |-> TRUE]
\* JS/TS text that ends in  module.exports = {...};  with the object literal d
JsModuleExports(d) == [fmt |-> "moduleExports", data |-> d, blank |-> FALSE]
\* JS/TS text that ends in  module.exports = { };
JsModuleExportsBlank == [fmt |-> "moduleExports", data |-> EmptyObj, blank |-> TRUE]
\* JS/TS text that ends in  export default { greet: hello };  an object
\* literal that throws when it is evaluated, and that is no JSON text once
\* its names are quoted
JsExportDefaultThrowing == [fmt |-> "exportDefaultThrowing"]
\* JS/TS text with none of the export forms the loader looks for
JsNoExport == [fmt |-> "noExport"]

\* the patterns of the loader and of the writer,  ...({[\s\S]+?})...,  need a
\* character between the braces of the object:  export default {};  is not
\* matched,  export default { };  is
HasObjectLiteral(content) == content.blank \/ content.data # EmptyObj

\* the segments that match ^[a-z]{2}(-[A-Z]{2})?$
LocaleShaped == {"en", "fr", "es", "me", "zh-CN"}
\* the segments that match ^[a-z]{2}(-[A-Z]{2})?$ when case is ignored
LocaleShapedNoCase == LocaleShaped \cup {"EN", "zh-cn"}

\* the lower-case letter of an upper-case letter; any other character is
\* left as it is
toLowerCaseChar(c) ==
  CASE c = "A" -> "a"
    [] c = "B" -> "b"
    [] c = "C" -> "c"
    [] c = "D" -> "d"
    [] c = "E" -> "e"
    [] c = "F" -> "f"
    [] c = "G" -> "g"
    [] c = "H" -> "h"
    [] c = "I" -> "i"
    [] c = "J" -> "j"
    [] c = "K" -> "k"
    [] c = "L" -> "l"
    [] c = "M" -> "m"
    [] c = "N" -> "n"
    [] c = "O" -> "o"
    [] c = "P" -> "p"
    [] c = "Q" -> "q"
    [] c = "R" -> "r"
    [] c = "S" -> "s"
    [] c = "T" -> "t"
    [] c = "U" -> "u"
    [] c = "V" -> "v"
    [] c = "W" -> "w"
    [] c = "X" -> "x"
    [] c = "Y" -> "y"
    [] c = "Z" -> "z"
    [] OTHER -> c

\* the strings a file name, a directory name or an extension is lower-cased to
LowerCaseStrings ==
  {"", "en", "fr", "es", "me", "zh-cn", "index", "common", "app", ".json", ".js", ".ts"}

\* String.prototype.toLowerCase: every character of s is lower-cased; the
\* string of the characters got is s itself when none has changed
ToLowerCase(s) ==
  LET chars == Chars(s)
      lower == [i \in 1..Len(chars) |-> toLowerCaseChar(chars[i])]
  IN  IF lower = chars THEN s
      ELSE CHOOSE t \in LowerCaseStrings : Chars(t) = lower

\* the first pattern matches the leftmost directory segment of locale shape,
\* the second the base name; the third and fourth (/i18n/xx/, /locales/xx/)
\* match only where the first already has
determineLocale(filePath) ==
  LET hits == {i \in 1..Len(filePath.dir) : filePath.dir[i] \in LocaleShaped}
  IN  IF hits # {}
      THEN ToLowerCase(filePath.dir[CHOOSE i \in hits : \A j \in hits : i <= j])
      ELSE IF filePath.name \in LocaleShaped /\ filePath.ext \in {".json", ".js", ".ts"}
      THEN ToLowerCase(filePath.name)
      ELSE filePath.name

determineNamespace(filePath) ==
  IF filePath.name \in LocaleShapedNoCase THEN "common" ELSE filePath.name

\* whether dir lies under the directory root (root/**)
Under(root, dir) ==
  /\ Len(root) <= Len(dir)
  /\ \A i \in 1..Len(root) : dir[i] = root[i]

\* whether the directory exists on disk: the directories are those of the
\* files of the walk, and a directory stays when the files in it are removed
DirExists(walk, dir) == \E i \in 1..Len(walk) : Under(dir, walk[i].dir)

\* the glob pattern  base/**/*ext
Pattern(base, ext) == [base |-> base, ext |-> ext]

\* the pattern matches the files, at any depth below its base, whose names
\* end in its extension; the match is case sensitive
MatchesPattern(pattern, f) == Under(pattern.base, f.dir) /\ f.ext = pattern.ext

\* options.ignore of the call:  **/node_modules/**  and  **/index.*
Ignored(f) ==
  \/ "node_modules" \in {f.dir[i] : i \in 1..Len(f.dir)}
  \/ f.name = "index"

\* what the patterns match: each path, in the order of the walk, once for
\* every pattern that matches it
RECURSIVE fgEntries(_, _, _)
fgEntries(patterns, disk, walk) ==
  IF Len(walk) = 0 THEN <<>>
  ELSE LET f == walk[1]
           hits == IF f \in DOMAIN disk /\ ~Ignored(f)
                   THEN SelectSeq(patterns, LAMBDA p : MatchesPattern(p, f))
                   ELSE <<>>
       IN  [i \in 1..Len(hits) |-> f] \o fgEntries(patterns, disk, Tail(walk))

\* the sequence without the repetitions of its elements
RECURSIVE Unique(_)
Unique(seq) ==
  IF Len(seq) = 0 THEN <<>>
  ELSE <<seq[1]>> \o Unique(SelectSeq(Tail(seq), LAMBDA x : x # seq[1]))

\* a plausible slip: the option  unique: false
fgNotUnique(patterns, disk, walk) ==
  fgEntries(patterns, disk, walk)

\* fg(patterns, globOptions) of the package fast-glob, by the contract of
\* its documentation: the paths of the files that some pattern matches and
\* no pattern of options.ignore does, each once (the option unique, true
\* when it is not given).  walk is the order in which the directory walk
\* yields the paths.
fg(patterns, disk, walk) ==
  Unique(fgEntries(patterns, disk, walk))

\* the body of the grouping loop after its awaits: the file is added to
\* the group of its locale and its namespace
groupFile(index, filePath) ==
  LET locale == determineLocale(filePath)
      namespace == determineNamespace(filePath)
      ofLocale == IF OHas(index, locale) THEN OGet(index, locale) ELSE <<>>
      ofNs == IF OHas(ofLocale, namespace) THEN OGet(ofLocale, namespace) ELSE <<>>
  IN  OPut(index, locale, OPut(ofLocale, namespace, Append(ofNs, filePath)))

\* findLocaleFiles between two awaits: the roots and the extensions it was
\* called with, the root ri it is at, the patterns collected, the files
\* that were found, the file fi it is at, the index built so far and the
\* call it awaits: fs.access of a root, fg, fs.access of a file or fs.stat
\* of a file.  The extensions of the model begin with a dot, and the roots
\* are joined to the workspace folder already.
FindStart(localesPaths, fileExtensions) ==
  [localesPaths |-> localesPaths, fileExtensions |-> fileExtensions,
   ri |-> 1, patterns |-> <<>>, files |-> <<>>, fi |-> 1, localeFiles |-> <<>>,
   await |-> IF Len(localesPaths) > 0 THEN "access" ELSE "fg"]

FindDone(st) == st.await = "done"

\* the grouping loop moves on to its next file, or the index is returned
FindNextFile(st) ==
  [st EXCEPT !.fi = st.fi + 1,
             !.await = IF st.fi < Len(st.files) THEN "fileAccess" ELSE "done"]

\* the call that is awaited ends on disk, and findLocaleFiles runs to its
\* next await.  A root that does not exist adds no pattern; a file that is
\* gone when it is accessed is skipped; fs.stat only logs.
FindStep(st, disk, walk) ==
  CASE st.await = "access" ->
         LET basePath == st.localesPaths[st.ri]
             added == IF DirExists(walk, basePath)
                      THEN [e \in 1..Len(st.fileExtensions) |->
                              Pattern(basePath, st.fileExtensions[e])]
                      ELSE <<>>
         IN  [st EXCEPT !.patterns = st.patterns \o added,
                        !.ri = st.ri + 1,
                        !.await = IF st.ri < Len(st.localesPaths) THEN "access" ELSE "fg"]
    [] st.await = "fg" ->
         LET allFiles == fg(st.patterns, disk, walk)
             filteredFiles == SelectSeq(allFiles, LAMBDA f : ToLowerCase(f.name) # "index")
         IN  [st EXCEPT !.files = filteredFiles,
                        !.await = IF Len(filteredFiles) > 0 THEN "fileAccess" ELSE "done"]
    [] st.await = "fileAccess" ->
         IF st.files[st.fi] \in DOMAIN disk
         THEN [st EXCEPT !.await = "stat"]
         ELSE FindNextFile(st)
    [] st.await = "stat" ->
         FindNextFile([st EXCEPT !.localeFiles = groupFile(st.localeFiles, st.files[st.fi])])

RECURSIVE FindRun(_, _, _)
FindRun(st, disk, walk) ==
  IF FindDone(st) THEN st ELSE FindRun(FindStep(st, disk, walk), disk, walk)

\* findLocaleFiles while the disk does not change
findLocaleFiles(localesPaths, fileExtensions, disk, walk) ==
  FindRun(FindStart(localesPaths, fileExtensions), disk, walk).localeFiles

\* the file extensions of the configuration, in their order
FileExtensions == <<".json", ".js", ".ts">>

----------------------------------------------------------------------------
(* localeManager: loadLocaleData *)

\* a plausible slip: a file that fails to parse resets what the group has merged
loadFileResetting(originalData, file, disk) ==
  IF file \notin DOMAIN disk THEN EmptyObj
  ELSE LET content == disk[file]
       IN  IF /\ \/ content.fmt = "json"
                 \/ content.fmt \in {"exportDefault", "moduleExports"}
                      /\ HasObjectLiteral(content)
              /\ content.data \notin {Null, Undefined}
           THEN deepMerge(originalData, content.data)
           ELSE EmptyObj

\* the body of the file loop: originalData after the file has been processed
loadFile(originalData, file, disk) ==
  IF file \notin DOMAIN disk THEN originalData                \* fs.access fails
  ELSE LET content == disk[file]
           ext == ToLowerCase(file.ext)
           parsed ==
             IF ext = ".json"
             THEN IF content.fmt = "json"
                  THEN [ok |-> TRUE, data |-> content.data]
                  ELSE [ok |-> FALSE]                          \* JSON.parse throws
             ELSE IF ext \in {".js", ".ts"}
             THEN IF /\ content.fmt \in {"exportDefault", "moduleExports"}
                     /\ HasObjectLiteral(content)
                  THEN [ok |-> TRUE, data |-> content.data]
                  ELSE [ok |-> FALSE]          \* no export found, or not evaluated
             ELSE [ok |-> FALSE]                               \* unsupported type
       IN  IF ~parsed.ok THEN originalData
           ELSE IF parsed.data \in {Null, Undefined} THEN originalData  \* Object.keys throws
           ELSE deepMerge(originalData, parsed.data)

\* the loader between two awaits: the index it iterates, its position
\* (locale li, namespace ni, file fi), the tree built so far and the
\* accumulator of the current group
LoadStart(index) ==
  [index |-> index, li |-> 1, ni |-> 1, fi |-> 1,
   localeData |-> <<>>, originalData |-> EmptyObj]

LoadDone(st) == st.li > Len(st.index)

\* the file the loader is at
CurrentFile(st) == st.index[st.li].v[st.ni].v[st.fi]

\* the loops move on from a file that left merged in the accumulator: after
\* the last file of a group the group is flattened and stored
LoadAdvance(st, merged) ==
  LET locale == st.index[st.li].k
      groups == st.index[st.li].v
      namespace == groups[st.ni].k
      files == groups[st.ni].v
      ofLocale == IF OHas(st.localeData, locale) THEN OGet(st.localeData, locale) ELSE <<>>
  IN  IF st.fi < Len(files)
      THEN [st EXCEPT !.fi = st.fi + 1, !.originalData = merged,
                      !.localeData = OPut(st.localeData, locale,
                                          OPut(ofLocale, namespace, EmptyObj))]
      ELSE LET stored == OPut(st.localeData, locale,
                              OPut(ofLocale, namespace, flattenObject(merged, EmptyStr)))
           IN  IF st.ni < Len(groups)
               THEN [st EXCEPT !.ni = st.ni + 1, !.fi = 1,
                               !.originalData = EmptyObj, !.localeData = stored]
               ELSE [st EXCEPT !.li = st.li + 1, !.ni = 1, !.fi = 1,
                               !.originalData = EmptyObj, !.localeData = stored]

\* one pass of the file loop on disk: the file is read and merged, and
\* the loops move on
LoadStep(st, disk) ==
  LoadAdvance(st, loadFile(st.originalData, CurrentFile(st), disk))

RECURSIVE LoadRun(_, _)
LoadRun(st, disk) == IF LoadDone(st) THEN st ELSE LoadRun(LoadStep(st, disk), disk)

\* loadLocaleData while the disk does not change
loadLocaleData(index, disk) == LoadRun(LoadStart(index), disk).localeData

----------------------------------------------------------------------------
(* localeManager: saveTranslation *)

NoTarget == [selectedNamespace |-> "", fileInfo |-> Path(<<>>, "", "")]

\* the file a locale's value goes to: groups is localeFiles[locale]
selectTarget(parts, groups) ==
  IF OHas(groups, parts[1]) /\ Len(OGet(groups, parts[1])) > 0
  THEN [selectedNamespace |-> parts[1], fileInfo |-> OGet(groups, parts[1])[1]]
  ELSE IF Len(groups) > 0
  THEN [selectedNamespace |-> groups[1].k, fileInfo |-> groups[1].v[1]]
  ELSE NoTarget

\* the segments the value is set at in the target file
keyPartsOf(parts, selectedNamespace) ==
  IF selectedNamespace = parts[1] THEN Slice1(parts) ELSE parts

\* console.warn / console.error: about is the locale or the file the message names
Report(out, msg, about) ==
  [out EXCEPT !.console = out.console \cup {[msg |-> msg, about |-> about]}]

\* a plausible slip: the value of the locale is not tested
saveLocaleTargetAnyValue(key, entry, index) ==
  IF ~OHas(index, entry.k)
  THEN [reads |-> FALSE, msg |-> "noFiles", about |-> entry.k]
  ELSE LET target == selectTarget(key, OGet(index, entry.k))
       IN  IF target = NoTarget
           THEN [reads |-> FALSE, msg |-> "noTarget", about |-> entry.k]
           ELSE [reads |-> TRUE, fileInfo |-> target.fileInfo,
                 keyParts |-> keyPartsOf(key, target.selectedNamespace)]

\* the body of the locale loop up to its  await fs.readFile:  entry is one
\* [locale, value] of translations; the locale is skipped with a warning, or
\* the file to read and the segments to set the value at are known
saveLocaleTarget(key, entry, index) ==
  IF entry.v = "" \/ ~OHas(index, entry.k)
  THEN [reads |-> FALSE, msg |-> "noFiles", about |-> entry.k]
  ELSE LET target == selectTarget(key, OGet(index, entry.k))
       IN  IF target = NoTarget
           THEN [reads |-> FALSE, msg |-> "noTarget", about |-> entry.k]
           ELSE [reads |-> TRUE, fileInfo |-> target.fileInfo,
                 keyParts |-> keyPartsOf(key, target.selectedNamespace)]

\* the body of the locale loop from the end of readFile to its
\* await fs.writeFile:  the content to write, or the error that is logged
\* (none for an extension that is neither .json nor .js/.ts).  What
\* setNestedValue throws is caught by the try around the whole body in a
\* JSON file, and by the try around the evaluation in a JS/TS file
saveLocaleContent(target, value, disk) ==
  LET fileInfo == target.fileInfo
      ext == ToLowerCase(fileInfo.ext)
  IN  IF fileInfo \notin DOMAIN disk                           \* readFile throws
      THEN [writes |-> FALSE, msg |-> "saveFailed"]
      ELSE LET content == disk[fileInfo]
               data == setNestedValue(content.data, target.keyParts, Str(value))
           IN  IF ext = ".json"
               THEN IF content.fmt # "json"                    \* JSON.parse throws
                    THEN [writes |-> FALSE, msg |-> "saveFailed"]
                    ELSE IF data.t = "TypeError"
                    THEN [writes |-> FALSE, msg |-> "saveFailed"]
                    ELSE [writes |-> TRUE, content |-> JsonDoc(JSONstringify(data))]
               ELSE IF ext \in {".js", ".ts"}
               THEN IF content.fmt = "exportDefaultThrowing"   \* eval throws
                    THEN [writes |-> FALSE, msg |-> "cannotUpdate"]
                    ELSE IF content.fmt # "exportDefault" \/ ~HasObjectLiteral(content)
                    THEN [writes |-> FALSE, msg |-> "noExportDefault"]
                    ELSE IF data.t = "TypeError"
                    THEN [writes |-> FALSE, msg |-> "cannotUpdate"]
                    ELSE [writes |-> TRUE, content |-> JsExportDefault(JSONstringify(data))]
               ELSE [writes |-> FALSE, msg |-> "none"]

\* fs.writeFile(file, content)
writeFile(disk, file, content) ==
  [f \in (DOMAIN disk) \cup {file} |-> IF f = file THEN content ELSE disk[f]]

\* the body of the locale loop while nothing else touches the disk: out is
\* the disk and the console so far
saveLocale(key, entry, index, out) ==
  LET target == saveLocaleTarget(key, entry, index)
  IN  IF ~target.reads THEN Report(out, target.msg, target.about)
      ELSE LET made == saveLocaleContent(target, entry.v, out.fs)
           IN  IF made.writes
               THEN [out EXCEPT !.fs = writeFile(out.fs, target.fileInfo, made.content)]
               ELSE IF made.msg = "none" THEN out
               ELSE Report(out, made.msg, target.fileInfo)

\* saveTranslation while nothing else touches the disk: the locale loop over
\* translations, a sequence of [k |-> locale, v |-> value] in the order of
\* the submitted object
RECURSIVE saveTranslation(_, _, _, _)
saveTranslation(key, translations, index, out) ==
  IF Len(translations) = 0 THEN out
  ELSE saveTranslation(key, Tail(translations), index,
                       saveLocale(key, translations[1], index, out))

\* a plausible slip: a target without  export default {...}  ends the whole batch
RECURSIVE saveUntilReadAborting(_, _, _, _)
saveUntilReadAborting(key, translations, index, log) ==
  IF Len(translations) = 0 \/ \E r \in log : r.msg = "noExportDefault"
  THEN [todo |-> <<>>, console |-> log]
  ELSE LET target == saveLocaleTarget(key, translations[1], index)
       IN  IF target.reads THEN [todo |-> translations, console |-> log]
           ELSE saveUntilReadAborting(key, Tail(translations), index,
                                      log \cup {[msg |-> target.msg, about |-> target.about]})

\* the locale loop of saveTranslation up to its next  await fs.readFile:
\* the entries left from the one that reads a file on, and the console
RECURSIVE saveUntilRead(_, _, _, _)
saveUntilRead(key, translations, index, log) ==
  IF Len(translations) = 0 THEN [todo |-> <<>>, console |-> log]
  ELSE LET target == saveLocaleTarget(key, translations[1], index)
       IN  IF target.reads THEN [todo |-> translations, console |-> log]
           ELSE saveUntilRead(key, Tail(translations), index,
                              log \cup {[msg |-> target.msg, about |-> target.about]})

\* the console after readFile has given a content that is not written
saveLogged(log, made, fileInfo) ==
  IF made.msg = "none" THEN log ELSE log \cup {[msg |-> made.msg, about |-> fileInfo]}

\* a call of saveTranslation that is followed from await to await: c is the
\* record of the call, todo the entries left, log the console
SaveCallGoesOn(c, todo, log) ==
  LET next == saveUntilRead(c.key, todo, localeFiles, log)
  IN  /\ console' = next.console
      /\ call' = [c EXCEPT !.stage = IF Len(next.todo) > 0 THEN "reading" ELSE "saved",
                           !.todo = next.todo]

\* the call of saveTranslation, up to its first  await fs.readFile
CallSaveTranslation ==
  /\ call.fn = "saveTranslation"
  /\ call.stage = "start"
  /\ SaveCallGoesOn([call EXCEPT !.before = fs], call.translations, console)
  /\ UNCHANGED <<fs, listing, config, localeFiles, localeData, translationCache,
                 session, tasks>>

\* readFile resolves: the data is parsed and changed and writeFile is called,
\* or the error is logged and the loop goes on
SaveTranslationRead ==
  /\ call.fn = "saveTranslation"
  /\ call.stage = "reading"
  /\ LET target == saveLocaleTarget(call.key, call.todo[1], localeFiles)
         made == saveLocaleContent(target, call.todo[1].v, fs)
     IN  IF made.writes
         THEN /\ call' = [call EXCEPT !.stage = "writing", !.content = made.content]
              /\ UNCHANGED console
         ELSE SaveCallGoesOn(call, Tail(call.todo),
                             saveLogged(console, made, target.fileInfo))
  /\ UNCHANGED <<fs, listing, config, localeFiles, localeData, translationCache,
                 session, tasks>>

\* writeFile resolves, and the loop goes on
SaveTranslationWrite ==
  /\ call.fn = "saveTranslation"
  /\ call.stage = "writing"
  /\ fs' = writeFile(fs, saveLocaleTarget(call.key, call.todo[1], localeFiles).fileInfo,
                     call.content)
  /\ SaveCallGoesOn([call EXCEPT !.content = Undefined], Tail(call.todo), console)
  /\ UNCHANGED <<listing, config, localeFiles, localeData, translationCache,
                 session, tasks>>

\* the call of loadLocaleData(index), up to its first  await fs.access
LoadCallBegins(c, index) ==
  IF LoadDone(LoadStart(index))
  THEN /\ call' = [c EXCEPT !.stage = "loaded", !.load = LoadStart(index)]
       /\ localeData' = <<>>
  ELSE /\ call' = [c EXCEPT !.stage = "loading", !.load = LoadStart(index),
                            !.await = "access"]
       /\ UNCHANGED localeData

\* loadLocaleData has gone through the file it was at and is at st: it
\* awaits the access of its next file, or it returns its tree
LoadCallGoesOn(st, seen) ==
  IF LoadDone(st)
  THEN /\ call' = [call EXCEPT !.stage = "loaded", !.load = st, !.seen = seen]
       /\ localeData' = st.localeData
  ELSE /\ call' = [call EXCEPT !.load = st, !.await = "access", !.seen = seen]
       /\ UNCHANGED localeData

\* fs.access resolves: readFile is called; or it rejects and the file is skipped
LoadAccess ==
  /\ call.fn \in {"loadLocaleData", "saveTranslation"}
  /\ call.stage = "loading"
  /\ call.await = "access"
  /\ IF CurrentFile(call.load) \in DOMAIN fs
     THEN /\ call' = [call EXCEPT !.await = "readFile"]
          /\ UNCHANGED localeData
     ELSE LoadCallGoesOn(LoadStep(call.load, fs), call.seen)
  /\ UNCHANGED <<fs, listing, config, localeFiles, translationCache, session, tasks,
                 console>>

\* fs.readFile resolves and the content is parsed and merged, or it rejects
\* and the file is skipped; seen keeps what was read
LoadReadFile ==
  /\ call.fn \in {"loadLocaleData", "saveTranslation"}
  /\ call.stage = "loading"
  /\ call.await = "readFile"
  /\ LET file == CurrentFile(call.load)
     IN  LoadCallGoesOn(LoadStep(call.load, fs),
                        IF file \in DOMAIN fs
                        THEN (file :> fs[file]) @@ call.seen ELSE call.seen)
  /\ UNCHANGED <<fs, listing, config, localeFiles, translationCache, session, tasks,
                 console>>

\* the call of findLocaleFiles with the paths, up to its first await; c is
\* the record of the call
FindCallBegins(c, paths) ==
  call' = [c EXCEPT !.stage = "finding", !.find = FindStart(paths, FileExtensions)]

\* findLocaleFiles of the call has run to st: it awaits again, or it
\* returns and its caller assigns the index; refreshLocales goes on to call
\* loadLocaleData
FindCallGoesOn(st) ==
  IF ~FindDone(st)
  THEN /\ call' = [call EXCEPT !.find = st]
       /\ UNCHANGED <<localeFiles, localeData>>
  ELSE IF call.fn = "findLocaleFiles"
  THEN /\ call' = [call EXCEPT !.stage = "found", !.find = st]
       /\ localeFiles' = st.localeFiles
       /\ UNCHANGED localeData
  ELSE /\ localeFiles' = st.localeFiles
       /\ LoadCallBegins([call EXCEPT !.find = st], st.localeFiles)

\* fs.access of a configured root resolves or rejects
FindRootAccess ==
  /\ call.fn \in {"findLocaleFiles", "saveTranslation"}
  /\ call.stage = "finding"
  /\ call.find.await = "access"
  /\ FindCallGoesOn(FindStep(call.find, fs, listing))
  /\ UNCHANGED <<fs, listing, config, translationCache, session, tasks, console>>

\* fg(patterns, globOptions) resolves
FindGlob ==
  /\ call.fn \in {"findLocaleFiles", "saveTranslation"}
  /\ call.stage = "finding"
  /\ call.find.await = "fg"
  /\ FindCallGoesOn(FindStep(call.find, fs, listing))
  /\ UNCHANGED <<fs, listing, config, translationCache, session, tasks, console>>

\* fs.access of a file that was found resolves or rejects
FindFileAccess ==
  /\ call.fn \in {"findLocaleFiles", "saveTranslation"}
  /\ call.stage = "finding"
  /\ call.find.await = "fileAccess"
  /\ FindCallGoesOn(FindStep(call.find, fs, listing))
  /\ UNCHANGED <<fs, listing, config, translationCache, session, tasks, console>>

\* fs.stat of a file that was found resolves or rejects
FindStat ==
  /\ call.fn \in {"findLocaleFiles", "saveTranslation"}
  /\ call.stage = "finding"
  /\ call.find.await = "stat"
  /\ FindCallGoesOn(FindStep(call.find, fs, listing))
  /\ UNCHANGED <<fs, listing, config, translationCache, session, tasks, console>>

----------------------------------------------------------------------------
(* The bounded universe of documents, keys and values *)

\* the most properties, over all levels, of a document in a locale file
MaxDocSize == 3
\* the most dot-separated segments of a translation key
MaxKeyLen == 3

\* property names of the documents, and the segments of the keys
DocSegs == {"common", "greet"}
KeySegs == DocSegs \cup {"0"}
DocNames == {<<s>> : s \in DocSegs}

\* the values at the leaves of a document
Leaves == {Str("Hi"), Str("Hola"), Null, Arr(<<Str("Hi")>>)}

\* the objects with properties among DocNames and values in vals
ObjectsOver(vals) ==
  {Obj(f) : f \in UNION {[D -> vals] : D \in SUBSET DocNames}}

\* the number of properties of v, over all levels
RECURSIVE Size(_)
Size(v) ==
  IF v.t # "obj" \/ DOMAIN v.o = {} THEN 0
  ELSE LET k == CHOOSE n \in DOMAIN v.o : TRUE
           rest == Obj([n \in (DOMAIN v.o) \ {k} |-> v.o[n]])
       IN  1 + Size(v.o[k]) + Size(rest)

\* the documents: nested objects, two levels deep
Docs ==
  {d \in ObjectsOver(Leaves \cup ObjectsOver(Leaves)) : Size(d) <= MaxDocSize}

\* the translation keys: 1..MaxKeyLen segments
Keys == UNION {[1..n -> KeySegs] : n \in 1..MaxKeyLen}

\* no single call is followed
NoCall == [fn |-> "none"]

\* the locale directory of the workspace, the extensions of the configuration
LocalesRoot == <<"work", "locales">>

\* the documents of the second namespace in the resolver's inputs
SmallDocs ==
  {Obj(f) : f \in UNION {[D -> {Str("Hola"), EmptyObj}] :
                           D \in {{}} \cup {{n} : n \in DocNames}}}

----------------------------------------------------------------------------
(* deepMerge applied to one pair of arguments *)

InitMerge ==
  /\ call \in {[fn |-> "deepMerge", target |-> t, source |-> s, done |-> FALSE,
                ret |-> Undefined] : t \in Docs, s \in Docs}
  /\ fs = EmptyFn
  /\ listing = <<>>
  /\ config = <<>>
  /\ localeFiles = <<>>
  /\ localeData = <<>>
  /\ translationCache = EmptyFn
  /\ NotInitialized
  /\ console = {}

CallDeepMerge ==
  /\ call.fn = "deepMerge"
  /\ ~call.done
  /\ call' = [call EXCEPT !.done = TRUE,
                          !.ret = deepMerge(call.target, call.source)]
  /\ UNCHANGED <<fs, listing, config, localeFiles, localeData, translationCache,
                 session, tasks, console>>

NextMerge == CallDeepMerge

SpecMerge == InitMerge /\ [][NextMerge]_vars

\* the merge as the specification describes it: objects on both sides merge key by
\* key, any other pair of values yields the later one
RECURSIVE MergeAsClaimed(_, _)
MergeAsClaimed(earlier, later) ==
  IF earlier.t = "obj" /\ later.t = "obj"
  THEN Obj([k \in (DOMAIN earlier.o) \cup (DOMAIN later.o) |->
              IF k \in DOMAIN later.o
              THEN IF k \in DOMAIN earlier.o
                   THEN MergeAsClaimed(earlier.o[k], later.o[k])
                   ELSE later.o[k]
              ELSE earlier.o[k]])
  ELSE later

\* C8: deepMerge(acc, next) merges recursively where both sides hold an
\* object at a key, and for every other conflicting pair of values at a key
\* the result holds the later file's value.
C8_MergeLaterFileWins ==
  (call.fn = "deepMerge" /\ call.done)
    => call.ret = MergeAsClaimed(call.target, call.source)

\* the call merges a file's data into what one merge of the same data into
\* the empty accumulator gave
MergedTwice ==
  /\ call.fn = "deepMerge" /\ call.done
  /\ call.target = deepMerge(EmptyObj, call.source)

\* C18: for any parsed file object d, deepMerge(deepMerge({}, d), d) is
\* deep-equal to deepMerge({}, d).
C18_MergeIdempotent == MergedTwice => call.ret = call.target

\* a file with a nested object, a null and an array has been merged twice
C18_Witness ==
  /\ MergedTwice
  /\ \E a, b \in DOMAIN call.source.o :
       /\ call.source.o[a].t = "obj" /\ DOMAIN call.source.o[a].o # {}
       /\ \E c \in DOMAIN call.source.o[a].o : call.source.o[a].o[c] = Null
       /\ call.source.o[b].t = "arr"

----------------------------------------------------------------------------
(* getTranslationsForKey applied to one key and one loaded tree *)

\* en has the namespaces common and app, in either order; fr has common
ResolveTrees ==
  {<<[k |-> "en",
      v |-> IF swap
            THEN <<[k |-> "app", v |-> flattenObject(d2, EmptyStr)],
                   [k |-> "common", v |-> flattenObject(d1, EmptyStr)]>>
            ELSE <<[k |-> "common", v |-> flattenObject(d1, EmptyStr)],
                   [k |-> "app", v |-> flattenObject(d2, EmptyStr)]>>],
     [k |-> "fr",
      v |-> <<[k |-> "common", v |-> flattenObject(d2, EmptyStr)]>>]>> :
     d1 \in Docs, d2 \in SmallDocs, swap \in BOOLEAN}

InitResolve ==
  /\ localeData \in ResolveTrees
  /\ call \in {[fn |-> "getTranslationsForKey", key |-> k, done |-> FALSE,
                ret |-> EmptyFn] : k \in Keys}
  /\ fs = EmptyFn
  /\ listing = <<>>
  /\ config = <<>>
  /\ localeFiles = <<>>
  /\ translationCache = EmptyFn
  /\ NotInitialized
  /\ console = {}

CallGetTranslationsForKey ==
  /\ call.fn = "getTranslationsForKey"
  /\ ~call.done
  /\ LET r == getTranslationsForKey(call.key, localeData, translationCache)
     IN  /\ call' = [call EXCEPT !.done = TRUE, !.ret = r.ret]
         /\ translationCache' = r.cache
  /\ UNCHANGED <<fs, listing, config, localeFiles, localeData, session, tasks, console>>

NextResolve == CallGetTranslationsForKey

SpecResolve == InitResolve /\ [][NextResolve]_vars

\* The three strategies as the specification states them, each on the
\* flattened map of one namespace.
Miss == [hit |-> FALSE, value |-> Undefined]

ExactMatch(flat, key) ==
  IF key \in DOMAIN flat.o THEN [hit |-> TRUE, value |-> flat.o[key]] ELSE Miss

RECURSIVE Descend(_, _)
Descend(v, segs) ==
  IF Len(segs) = 0 THEN v
  ELSE IF v.t \in {"obj", "arr"} /\ <<segs[1]>> \in OwnKeys(v)
  THEN Descend(Get(v, <<segs[1]>>), Tail(segs))
  ELSE Undefined

SegmentPath(flat, key) ==
  IF Descend(flat, key).t = "str"
  THEN [hit |-> TRUE, value |-> Descend(flat, key)] ELSE Miss

TrailingSegment(flat, key) ==
  IF Len(key) > 1 /\ <<key[Len(key)]>> \in DOMAIN flat.o
  THEN [hit |-> TRUE, value |-> flat.o[<<key[Len(key)]>>]] ELSE Miss

FirstStrategy(flat, key) ==
  IF ExactMatch(flat, key).hit THEN ExactMatch(flat, key)
  ELSE IF SegmentPath(flat, key).hit THEN SegmentPath(flat, key)
  ELSE TrailingSegment(flat, key)

\* the namespaces of a locale, in order, where some strategy succeeds
HitNamespaces(namespaces, key) ==
  {j \in 1..Len(namespaces) : FirstStrategy(namespaces[j].v, key).hit}

ResolveDone == call.fn = "getTranslationsForKey" /\ call.done

\* C4: for each locale the value returned is the one given by the first
\* strategy (exact, then segment path, then trailing segment) that succeeds
\* in the first namespace, in loader order, where any strategy succeeds; a
\* locale with no such namespace gets no entry.
C4_FirstNamespaceFirstStrategy ==
  ResolveDone =>
    \A i \in 1..Len(localeData) :
      LET hits == HitNamespaces(localeData[i].v, call.key)
          first == CHOOSE j \in hits : \A h \in hits : j <= h
      IN  IF hits = {}
          THEN localeData[i].k \notin DOMAIN call.ret
          ELSE /\ localeData[i].k \in DOMAIN call.ret
               /\ call.ret[localeData[i].k] =
                    FirstStrategy(localeData[i].v[first].v, call.key).value

\* C4 witness: both namespaces of a locale hold a match, with different
\* values; in the first the exact match and the trailing-segment fallback
\* disagree too, and the result is the exact match of the first namespace
C4_Witness ==
  /\ ResolveDone
  /\ \E i \in 1..Len(localeData) :
       LET nss == localeData[i].v
       IN  /\ Len(nss) = 2
           /\ ExactMatch(nss[1].v, call.key).hit
           /\ TrailingSegment(nss[1].v, call.key).hit
           /\ TrailingSegment(nss[1].v, call.key).value # ExactMatch(nss[1].v, call.key).value
           /\ FirstStrategy(nss[2].v, call.key).hit
           /\ FirstStrategy(nss[2].v, call.key).value # ExactMatch(nss[1].v, call.key).value
           /\ localeData[i].k \in DOMAIN call.ret
           /\ call.ret[localeData[i].k] = ExactMatch(nss[1].v, call.key).value

\* the locale en holds the document doc in one namespace and nothing else
OnlyDataOfEn(doc) ==
  \E i \in 1..Len(localeData) :
    /\ localeData[i].k = "en"
    /\ \E j \in 1..Len(localeData[i].v) :
         /\ localeData[i].v[j].v = flattenObject(doc, EmptyStr)
         /\ \A h \in 1..Len(localeData[i].v) :
              h # j => localeData[i].v[h].v = EmptyObj

NestedGreetDoc == Obj(<<"common">> :> Obj(<<"greet">> :> Str("Hi")))
FlatGreetDoc == Obj(<<"greet">> :> Str("Hi"))

\* C5 as stated: with the only data { common: { greet: "Hi" } }, resolving
\* the key "greet" returns "Hi" for the locale.
C5_FallbackOnSingleSegment ==
  (ResolveDone /\ call.key = <<"greet">> /\ OnlyDataOfEn(NestedGreetDoc))
    => ("en" \in DOMAIN call.ret /\ call.ret["en"] = Str("Hi"))

\* C5 amended: with the only data { common: { greet: "Hi" } } the key "greet"
\* resolves to nothing; with the only data { greet: "Hi" } the two-segment
\* key "common.greet" resolves to "Hi", and it is the trailing-segment
\* fallback that finds it (exact match and segment path both miss).
C5_FallbackOnLastSegment ==
  /\ (ResolveDone /\ call.key = <<"greet">> /\ OnlyDataOfEn(NestedGreetDoc))
       => "en" \notin DOMAIN call.ret
  /\ (ResolveDone /\ call.key = <<"common", "greet">> /\ OnlyDataOfEn(FlatGreetDoc))
       => /\ "en" \in DOMAIN call.ret
          /\ call.ret["en"] = Str("Hi")
          /\ ~ExactMatch(FlatGreetDoc, call.key).hit
          /\ ~SegmentPath(FlatGreetDoc, call.key).hit
          /\ TrailingSegment(FlatGreetDoc, call.key).value = Str("Hi")

C5_Witness ==
  /\ ResolveDone
  /\ call.key = <<"common", "greet">>
  /\ OnlyDataOfEn(FlatGreetDoc)
  /\ "en" \in DOMAIN call.ret
  /\ call.ret["en"] = Str("Hi")

----------------------------------------------------------------------------
(* loadLocaleData applied to one index, with files that fail to load *)

\* three files of the group (en, common), in the order they are found, and
\* one file of the group (fr, common)
LoadA == Path(<<"work", "locales", "en">>, "common", ".json")
LoadB == Path(<<"work", "locales", "en">>, "common", ".js")
LoadC == Path(<<"work", "locales", "en", "sub">>, "common", ".json")
LoadF == Path(<<"work", "locales", "fr">>, "common", ".json")

JsContents(docs) ==
  {JsExportDefault(d) : d \in docs} \cup {JsModuleExports(d) : d \in docs}
    \cup {JsExportDefaultBlank, JsModuleExportsBlank, JsExportDefaultThrowing, JsNoExport}

LoadDisks ==
  {(LoadA :> a) @@ (LoadB :> b) @@ (LoadC :> c) @@ (LoadF :> JsonDoc(Obj(<<"greet">> :> Str("Salut")))) :
     a \in {JsonDoc(d) : d \in Docs \cup {Null}} \cup {BadJson},
     b \in JsContents({d \in Docs : Size(d) <= 1}),
     c \in {JsonDoc(d) : d \in SmallDocs} \cup {BadJson}}

InitLoad ==
  /\ fs \in LoadDisks
  /\ listing = <<LoadA, LoadB, LoadC, LoadF>>
  /\ config = <<LocalesRoot>>
  /\ localeFiles = findLocaleFiles(config, FileExtensions, fs, listing)
  /\ localeData = <<>>
  /\ call = [fn |-> "loadLocaleData", stage |-> "start", load |-> LoadStart(<<>>),
              await |-> "none", seen |-> EmptyFn]
  /\ translationCache = EmptyFn
  /\ NotInitialized
  /\ console = {}

\* a file found by the locator is removed, before the load or during it
Unlink ==
  /\ call.fn = "loadLocaleData"
  /\ call.stage # "loaded"
  /\ DOMAIN fs = {LoadA, LoadB, LoadC, LoadF}
  /\ \E gone \in {LoadA, LoadB, LoadC} :
       fs' = [f \in (DOMAIN fs) \ {gone} |-> fs[f]]
  /\ UNCHANGED <<listing, config, localeFiles, localeData, translationCache,
                 session, tasks, console, call>>

CallLoadLocaleData ==
  /\ call.fn = "loadLocaleData"
  /\ call.stage = "start"
  /\ LoadCallBegins(call, localeFiles)
  /\ UNCHANGED <<fs, listing, config, localeFiles, translationCache,
                 session, tasks, console>>

NextLoad == Unlink \/ CallLoadLocaleData \/ LoadAccess \/ LoadReadFile

SpecLoad == InitLoad /\ [][NextLoad]_vars

\* whether the loader can read and parse the file
Loadable(file, disk) ==
  /\ file \in DOMAIN disk
  /\ \/ file.ext = ".json" /\ disk[file].fmt = "json"
     \/ /\ file.ext \in {".js", ".ts"}
        /\ disk[file].fmt \in {"exportDefault", "moduleExports"}
        /\ HasObjectLiteral(disk[file])

\* the deep merge, in order, of the files of a group that load
RECURSIVE MergeLoadable(_, _, _)
MergeLoadable(files, disk, acc) ==
  IF Len(files) = 0 THEN acc
  ELSE MergeLoadable(Tail(files), disk,
                     IF Loadable(files[1], disk)
                     THEN deepMerge(acc, disk[files[1]].data) ELSE acc)

LoadCallDone == call.fn = "loadLocaleData" /\ call.stage = "loaded"

\* C9: a file of a group that cannot be read or parsed is skipped; the data
\* of every group is the flattening of the in-order deep merge of exactly
\* the files that parse, and every locale and namespace of the index is
\* loaded whatever files fail.
C9_BadFileSkipped ==
  LoadCallDone =>
    /\ Len(localeData) = Len(localeFiles)
    /\ \A i \in 1..Len(localeFiles) :
         /\ localeData[i].k = localeFiles[i].k
         /\ Len(localeData[i].v) = Len(localeFiles[i].v)
         /\ \A j \in 1..Len(localeFiles[i].v) :
              /\ localeData[i].v[j].k = localeFiles[i].v[j].k
              /\ localeData[i].v[j].v =
                   flattenObject(MergeLoadable(localeFiles[i].v[j].v, call.seen, EmptyObj),
                                 EmptyStr)

\* C9 witness: the middle file of a group of three does not load, the first
\* and the last hold different data, and the group holds data of both
C9_Witness ==
  /\ LoadCallDone
  /\ Loadable(LoadA, call.seen) /\ ~Loadable(LoadB, call.seen)
  /\ Loadable(LoadC, call.seen)
  /\ call.seen[LoadA].data = Obj(<<"common">> :> Obj(<<"greet">> :> Str("Hi")))
  /\ call.seen[LoadC].data = Obj(<<"greet">> :> Str("Hola"))
  /\ localeData[1].k = "en"
  /\ localeData[1].v[1].v.o[<<"common", "greet">>] = Str("Hi")
  /\ localeData[1].v[1].v.o[<<"greet">>] = Str("Hola")
  /\ localeData[2].v[1].v.o[<<"greet">>] = Str("Salut")

----------------------------------------------------------------------------
(* One edit of one locale: saveTranslation, then the refresh that reloads *)
(* the locale files, then the lookup of the same key                      *)

\* en has the namespaces common and app, found in either order
WriteA == Path(<<"work", "locales", "en">>, "common", ".json")
WriteB == Path(<<"work", "locales", "en">>, "app", ".json")

WriteDisks ==
  {(WriteA :> a) @@ (WriteB :> JsonDoc(b)) :
     a \in {JsonDoc(d) : d \in Docs \cup {Str("Hi")}} \cup {BadJson}, b \in SmallDocs}

InitWrite ==
  /\ fs \in WriteDisks
  /\ listing \in {<<WriteA, WriteB>>, <<WriteB, WriteA>>}
  /\ config = <<LocalesRoot>>
  /\ localeFiles = findLocaleFiles(config, FileExtensions, fs, listing)
  /\ localeData = loadLocaleData(localeFiles, fs)
  /\ call \in {[fn |-> "saveTranslation", key |-> k,
                translations |-> <<[k |-> "en", v |-> "Hola"]>>,
                before |-> EmptyFn, stage |-> "start", ret |-> EmptyFn,
                todo |-> <<>>, content |-> Undefined,
                find |-> FindStart(<<>>, <<>>),
                load |-> LoadStart(<<>>), await |-> "none", seen |-> EmptyFn] :
                 k \in {e \in Keys :
                          getWebviewContent(editTranslationLookup(e, localeData))
                            # TypeError}}
  /\ translationCache = EmptyFn
  /\ NotInitialized
  /\ console = {}

\* the refresh after the edit: findLocaleFiles is called
Reload ==
  /\ call.fn = "saveTranslation"
  /\ call.stage = "saved"
  /\ FindCallBegins(call, config)
  /\ UNCHANGED <<fs, listing, config, localeFiles, localeData, translationCache,
                 session, tasks, console>>

ResolveSavedKey ==
  /\ call.fn = "saveTranslation"
  /\ call.stage = "loaded"
  /\ LET r == getTranslationsForKey(call.key, localeData, translationCache)
     IN  /\ call' = [call EXCEPT !.stage = "resolved", !.ret = r.ret]
         /\ translationCache' = r.cache
  /\ UNCHANGED <<fs, listing, config, localeFiles, localeData, session,
                 tasks, console>>

NextWrite ==
  \/ CallSaveTranslation
  \/ SaveTranslationRead
  \/ SaveTranslationWrite
  \/ Reload
  \/ FindRootAccess
  \/ FindGlob
  \/ FindFileAccess
  \/ FindStat
  \/ LoadAccess
  \/ LoadReadFile
  \/ ResolveSavedKey

SpecWrite == InitWrite /\ [][NextWrite]_vars

\* every locale file is JSON text of an object
AllFilesValid(disk) == \A f \in DOMAIN disk : disk[f].fmt = "json" /\ disk[f].data.t = "obj"

\* C1: saveTranslation(key, {L: v}) followed by re-loading the locale files
\* makes resolving the same key return v for L (here L = en, v = "Hola",
\* and every locale file of en is valid JSON).
C1_WriteRoundTrip ==
  (call.fn = "saveTranslation" /\ call.stage = "resolved" /\ AllFilesValid(call.before))
    => ("en" \in DOMAIN call.ret /\ call.ret["en"] = Str("Hola"))

\* the namespaces of a locale of the index that hold a file
NamespacesOf(index, locale) ==
  LET groups == OGet(index, locale)
  IN  {groups[i].k : i \in 1..Len(groups)}

\* the files of a namespace of a locale
FilesOf(index, locale, namespace) ==
  LET groups == OGet(index, locale)
      files == OGet(groups, namespace)
  IN  {files[i] : i \in 1..Len(files)}

\* the value v sits at the path segs of the document of the file
ValueAt(disk, file, segs, v) == Descend(disk[file].data, segs) = Str(v)

\* C7: for a locale with a non-empty value, saveTranslation writes to a file
\* of the namespace equal to the key's first segment when the locale has a
\* file for it, and sets the value at the path of the remaining segments;
\* otherwise it writes to a file of another namespace of the locale and
\* sets the value at the path of all segments (every file being valid JSON).
C7_TargetSelection ==
  (call.fn = "saveTranslation" /\ call.stage = "saved" /\ AllFilesValid(call.before))
    => IF call.key[1] \in NamespacesOf(localeFiles, "en")
       THEN \E f \in FilesOf(localeFiles, "en", call.key[1]) :
              ValueAt(fs, f, Tail(call.key), "Hola")
       ELSE \E n \in NamespacesOf(localeFiles, "en") :
              \E f \in FilesOf(localeFiles, "en", n) :
                ValueAt(fs, f, call.key, "Hola")

----------------------------------------------------------------------------
(* One saveTranslation batch over two locales kept in JS/TS modules *)

BatchE == Path(<<"work", "locales", "es">>, "common", ".ts")
BatchF == Path(<<"work", "locales", "fr">>, "common", ".js")

BatchDisks ==
  {(BatchE :> e) @@ (BatchF :> f) : e \in JsContents(SmallDocs), f \in JsContents(SmallDocs)}

\* the object the editor submits: its locales in the order of the loaded tree
BatchTranslations ==
  LET es == [k |-> "es", v |-> "Hola"]
      fr == [k |-> "fr", v |-> "Salut"]
  IN  {<<es, fr>>, <<fr, es>>, <<es>>, <<fr>>}

InitBatch ==
  /\ fs \in BatchDisks
  /\ listing \in {<<BatchE, BatchF>>, <<BatchF, BatchE>>}
  /\ config = <<LocalesRoot>>
  /\ localeFiles = findLocaleFiles(config, FileExtensions, fs, listing)
  /\ localeData = loadLocaleData(localeFiles, fs)
  /\ call \in {[fn |-> "saveTranslation", key |-> k, translations |-> t,
                before |-> EmptyFn, stage |-> "start", ret |-> EmptyFn,
                todo |-> <<>>, content |-> Undefined] :
                 k \in {e \in Keys :
                          getWebviewContent(editTranslationLookup(e, localeData))
                            # TypeError},
                 t \in BatchTranslations}
  /\ translationCache = EmptyFn
  /\ NotInitialized
  /\ console = {}

NextBatch == CallSaveTranslation \/ SaveTranslationRead \/ SaveTranslationWrite

SpecBatch == InitBatch /\ [][NextBatch]_vars

\* the locales of the submitted translations
BatchLocales == {call.translations[i].k : i \in 1..Len(call.translations)}
BatchValue(locale) ==
  call.translations[CHOOSE i \in 1..Len(call.translations) :
                      call.translations[i].k = locale].v

\* the file the writer picks for a locale, and the path it sets in it
TargetOf(locale) == selectTarget(call.key, OGet(localeFiles, locale)).fileInfo
PathOf(locale) ==
  keyPartsOf(call.key, selectTarget(call.key, OGet(localeFiles, locale)).selectedNamespace)

\* the text of the file has an  export default {...}  the writer can locate
HasExportDefault(disk, file) ==
  \/ disk[file].fmt = "exportDefault" /\ HasObjectLiteral(disk[file])
  \/ disk[file].fmt = "exportDefaultThrowing"

\* the object literal of the export can be evaluated
ExportEvaluates(disk, file) == disk[file].fmt = "exportDefault"

\* the file of the locale after the batch is what saving that locale alone gives
WrittenAsAlone(locale) ==
  LET alone == saveTranslation(call.key, <<[k |-> locale, v |-> BatchValue(locale)]>>,
                               localeFiles, [fs |-> call.before, console |-> {}])
  IN  fs[TargetOf(locale)] = alone.fs[TargetOf(locale)]

\* C6: in one batch, a locale whose JS/TS target has no locatable
\* export default {...} fails alone: its file is left unchanged and an error
\* naming its file is logged, while every other locale of the batch whose
\* file has the export is written (its file is what saving it alone gives,
\* and holds the value at the written path).
C6_WriteIsolation ==
  (call.fn = "saveTranslation" /\ call.stage = "saved" /\ DOMAIN fs = {BatchE, BatchF})
    => \A l \in BatchLocales :
         IF ~HasExportDefault(call.before, TargetOf(l))
         THEN /\ fs[TargetOf(l)] = call.before[TargetOf(l)]
              /\ [msg |-> "noExportDefault", about |-> TargetOf(l)] \in console
         ELSE IF ~ExportEvaluates(call.before, TargetOf(l))
         THEN /\ fs[TargetOf(l)] = call.before[TargetOf(l)]
              /\ [msg |-> "cannotUpdate", about |-> TargetOf(l)] \in console
         ELSE /\ WrittenAsAlone(l)
              /\ Len(PathOf(l)) > 0 => ValueAt(fs, TargetOf(l), PathOf(l), BatchValue(l))

\* a batch in which es fails first and fr is written after it
C6_Witness ==
  /\ call.fn = "saveTranslation" /\ call.stage = "saved"
  /\ DOMAIN fs = {BatchE, BatchF}
  /\ Len(call.translations) = 2 /\ call.translations[1].k = "es"
  /\ ~HasExportDefault(call.before, BatchE)
  /\ HasExportDefault(call.before, BatchF) /\ ExportEvaluates(call.before, BatchF)
  /\ fs[BatchE] = call.before[BatchE]
  /\ fs[BatchF] # call.before[BatchF]
  /\ Len(PathOf("fr")) > 0
  /\ ValueAt(fs, BatchF, PathOf("fr"), "Salut")

----------------------------------------------------------------------------
(* The session of index.js: initialize, the deferred first load,          *)
(* refreshLocales between its awaits, hover lookups, the translation      *)
(* editor and dispose.  Code between two awaits runs as one step; an      *)
(* await of a promise that is already settled does not end the step.      *)

\* the texts of the status bar item (the icon and an ASCII gloss of the label)
TextLoading == "$(sync~spin) loading"
TextRefreshing == "$(sync~spin) refreshing"
TextUnconfigured == "$(alert) unconfigured"
TextFailed == "$(error) failed"
TextInitDone == "$(globe)"
TextReady(localeCount) ==
  IF localeCount > 0 THEN "$(globe) " \o ToString(localeCount) ELSE "$(globe)"

\* if (statusBarItem) statusBarItem.text = text
SetText(item, text) == IF item = "null" THEN item ELSE text

isEmpty(tree) == Len(tree) = 0

\* decorateI18nKeys drops the cache once it holds more than this many keys
CacheLimit == 1000

\* what decorateActiveEditor does to the cache (an editor of a supported
\* language is open)
decorateActiveEditor(cache, tree) ==
  IF isEmpty(tree) THEN cache
  ELSE IF Cardinality(DOMAIN cache) > CacheLimit THEN EmptyFn
  ELSE cache

\* the most asynchronous calls in flight at once
MaxTasks == 2

\* the keys hovered over and edited
SessionKeys == {<<"greet">>, <<"common", "greet">>}

SessionEn == Path(<<"work", "locales", "en">>, "common", ".json")
SessionFr == Path(<<"work", "locales", "fr">>, "common", ".json")

SessionDisks ==
  {(SessionEn :> JsonDoc(e)) @@ (SessionFr :> JsonDoc(Obj(<<"greet">> :> Str("Salut")))) :
     e \in {EmptyObj, Obj(<<"greet">> :> Str("Hi"))}}

Remove(seq, i) == [j \in 1..(Len(seq) - 1) |-> IF j < i THEN seq[j] ELSE seq[j + 1]]
Replace(seq, i, x) == [seq EXCEPT ![i] = x]

\* a plausible slip: the loader fills the module's tree in place
refreshAssignEager(moduleTree, st) == st.localeData

\* localeData = await loadLocaleData(localeFiles): the module's tree while
\* the load is at st
refreshAssign(moduleTree, st) ==
  IF LoadDone(st) THEN st.localeData ELSE moduleTree

\* refreshLocales up to its first pending await, the first of
\* findLocaleFiles: the text it leaves and the call left in flight, if any
refreshBegin(owner, item, paths) ==
  IF Len(paths) = 0
  THEN [text |-> SetText(item, TextUnconfigured), task |-> <<>>]
  ELSE IF Len(workspaceFolders) = 0         \* findLocaleFiles throws
  THEN [text |-> SetText(item, TextFailed), task |-> <<>>]
  ELSE [text |-> SetText(item, TextRefreshing),
        task |-> <<[kind |-> "refresh", owner |-> owner, stage |-> "finding",
                    find |-> FindStart(paths, FileExtensions), saving |-> 0]>>]

\* the rest of the callback of initialize once its refreshLocales has
\* returned, leaving text in the status bar.  After dispose() context is null
\* and the first use of context.subscriptions throws: the callback ends
\* there, after registerHoverProvider when there is data to hover over.
InitCallbackRest(text, tree, cache) ==
  /\ hoverProvider' = IF ~isEmpty(tree)
                      THEN [registered |-> TRUE, localeData |-> tree]
                      ELSE hoverProvider
  /\ IF context = "null"
     THEN /\ translationCache' = cache
          /\ statusBarItem' = text
          /\ UNCHANGED <<isInitialized, isInitializing>>
     ELSE /\ translationCache' = decorateActiveEditor(cache, tree)
          /\ statusBarItem' = TextInitDone
          /\ isInitialized' = TRUE
          /\ isInitializing' = FALSE

\* a refreshLocales that returns: the caller's continuation, if it has one
RefreshReturns(owner, text, tree, cache) ==
  IF owner = "init"
  THEN InitCallbackRest(text, tree, cache)
  ELSE /\ statusBarItem' = text
       /\ translationCache' = cache
       /\ UNCHANGED <<hoverProvider, isInitialized, isInitializing>>

\* a call of refreshLocales by owner when the configured paths are paths;
\* rest are the other calls in flight, saving the save, still running, of
\* the editor whose end makes the call (0: none)
RefreshCalledAfter(owner, saving, rest, paths) ==
  LET r == refreshBegin(owner, statusBarItem, paths)
  IN  /\ tasks' = rest \o [k \in 1..Len(r.task) |-> [r.task[k] EXCEPT !.saving = saving]]
      /\ IF r.task = <<>>
         THEN RefreshReturns(owner, r.text, localeData, translationCache)
         ELSE /\ statusBarItem' = r.text
              /\ UNCHANGED <<translationCache, hoverProvider, isInitialized,
                             isInitializing>>

\* a call of refreshLocales by owner, in place of the task at i (0: none),
\* when the configured paths are paths
RefreshCalled(owner, i, paths) ==
  RefreshCalledAfter(owner, 0, IF i = 0 THEN tasks ELSE Remove(tasks, i), paths)

\* the load of the task at i has reached st: it awaits the access of its
\* next file, or it returns and refreshLocales goes on to its end
RefreshLoads(i, st) ==
  /\ localeData' = refreshAssign(localeData, st)
  /\ IF LoadDone(st)
     THEN /\ tasks' = Remove(tasks, i)
          /\ RefreshReturns(tasks[i].owner,
                            SetText(statusBarItem, TextReady(Len(st.localeData))),
                            st.localeData,
                            decorateActiveEditor(translationCache, st.localeData))
     ELSE /\ tasks' = Replace(tasks, i, [kind |-> "refresh", owner |-> tasks[i].owner,
                                         stage |-> "loading", load |-> st,
                                         await |-> "access",
                                         saving |-> tasks[i].saving])
          /\ UNCHANGED <<translationCache, statusBarItem, hoverProvider,
                         isInitialized, isInitializing>>

Init ==
  /\ fs \in SessionDisks
  /\ listing = <<SessionEn, SessionFr>>
  /\ config \in {<<>>, <<LocalesRoot>>}
  /\ workspaceFolders \in {<<>>, <<"work">>}
  /\ localeFiles = <<>>
  /\ localeData = <<>>
  /\ translationCache = EmptyFn
  /\ statusBarItem = "null"
  /\ hoverProvider = NoProvider
  /\ isInitialized = FALSE
  /\ isInitializing = FALSE
  /\ context = "null"
  /\ tasks = <<>>
  /\ console = {}
  /\ call = NoCall

\* the extension is active and index.js has been loaded and initialized
Active == context = "set"

\* some refresh has loaded a part of its tree and not the rest
MidLoad ==
  \E i \in 1..Len(tasks) :
    /\ tasks[i].kind = "refresh"
    /\ tasks[i].stage = "loading"
    /\ ~isEmpty(tasks[i].load.localeData)

\* extension.js requires index.js once and calls initialize(context)
Initialize ==
  /\ statusBarItem = "null"
  /\ ~(isInitialized \/ isInitializing)
  /\ isInitializing' = TRUE
  /\ context' = "set"
  /\ statusBarItem' = TextLoading
  /\ tasks' = Append(tasks, [kind |-> "timer"])
  /\ UNCHANGED <<fs, listing, config, workspaceFolders, localeFiles, localeData,
                 translationCache, hoverProvider, isInitialized, console, call>>

\* the callback of setTimeout(..., 300) in initialize
InitCallback ==
  \E i \in 1..Len(tasks) :
    /\ tasks[i].kind = "timer"
    /\ RefreshCalled("init", i, config)
    /\ UNCHANGED <<fs, listing, config, workspaceFolders, localeFiles, localeData,
                   context, console, call>>

\* the command devassistkit.i18nTools.refreshLocales
RefreshCommand ==
  /\ Active
  /\ Len(tasks) < MaxTasks
  /\ RefreshCalled("command", 0, config)
  /\ UNCHANGED <<fs, listing, config, workspaceFolders, localeFiles, localeData,
                 context, console, call>>

\* configureLocales up to its  await showInputBox
ConfigureLocales ==
  /\ Active
  /\ Len(tasks) < MaxTasks
  /\ tasks' = Append(tasks, [kind |-> "configure", stage |-> "input", paths |-> <<>>])
  /\ UNCHANGED <<fs, listing, config, localeFiles, localeData, translationCache,
                 session, console, call>>

\* the input box of the configureLocales at task i is answered with paths:
\* configureLocales goes on to its  await config.update
InputAnswered(i, paths) ==
  /\ tasks[i].kind = "configure"
  /\ tasks[i].stage = "input"
  /\ tasks' = Replace(tasks, i, [kind |-> "configure", stage |-> "updating",
                                 paths |-> paths])
  /\ UNCHANGED <<fs, listing, config, localeFiles, localeData, translationCache,
                 session, console, call>>

ConfigureAnswered ==
  \E i \in 1..Len(tasks) : \E paths \in {<<>>, <<LocalesRoot>>} : InputAnswered(i, paths)

\* the input box is dismissed (pathsInput === undefined): nothing is stored
ConfigureDismissed ==
  \E i \in 1..Len(tasks) :
    /\ tasks[i].kind = "configure"
    /\ tasks[i].stage = "input"
    /\ tasks' = Remove(tasks, i)
    /\ UNCHANGED <<fs, listing, config, localeFiles, localeData, translationCache,
                   session, console, call>>

\* config.update resolves: the paths are stored, and refreshLocales is called
ConfigureUpdated ==
  \E i \in 1..Len(tasks) :
    /\ tasks[i].kind = "configure"
    /\ tasks[i].stage = "updating"
    /\ config' = tasks[i].paths
    /\ RefreshCalled("command", i, config')
    /\ UNCHANGED <<fs, listing, workspaceFolders, localeFiles, localeData, context,
                   console, call>>

\* findLocaleFiles of the refresh at task i has run to st: it awaits again,
\* or it returns, the index is assigned and loadLocaleData is called
RefreshFinds(i, st) ==
  IF FindDone(st)
  THEN /\ localeFiles' = st.localeFiles
       /\ RefreshLoads(i, LoadStart(st.localeFiles))
  ELSE /\ tasks' = Replace(tasks, i, [tasks[i] EXCEPT !.find = st])
       /\ UNCHANGED <<localeFiles, localeData, translationCache, statusBarItem,
                      hoverProvider, isInitialized, isInitializing>>

\* fs.access of a configured root, awaited by the findLocaleFiles of a
\* refresh, resolves or rejects
RefreshRootAccess ==
  \E i \in 1..Len(tasks) :
    /\ tasks[i].kind = "refresh"
    /\ tasks[i].stage = "finding"
    /\ tasks[i].find.await = "access"
    /\ RefreshFinds(i, FindStep(tasks[i].find, fs, listing))
    /\ UNCHANGED <<fs, listing, config, workspaceFolders, context, console, call>>

\* fg(patterns, globOptions) of a refresh resolves
RefreshGlob ==
  \E i \in 1..Len(tasks) :
    /\ tasks[i].kind = "refresh"
    /\ tasks[i].stage = "finding"
    /\ tasks[i].find.await = "fg"
    /\ RefreshFinds(i, FindStep(tasks[i].find, fs, listing))
    /\ UNCHANGED <<fs, listing, config, workspaceFolders, context, console, call>>

\* fs.access of a file found by a refresh resolves or rejects
RefreshFileAccess ==
  \E i \in 1..Len(tasks) :
    /\ tasks[i].kind = "refresh"
    /\ tasks[i].stage = "finding"
    /\ tasks[i].find.await = "fileAccess"
    /\ RefreshFinds(i, FindStep(tasks[i].find, fs, listing))
    /\ UNCHANGED <<fs, listing, config, workspaceFolders, context, console, call>>

\* fs.stat of a file found by a refresh resolves or rejects
RefreshStat ==
  \E i \in 1..Len(tasks) :
    /\ tasks[i].kind = "refresh"
    /\ tasks[i].stage = "finding"
    /\ tasks[i].find.await = "stat"
    /\ RefreshFinds(i, FindStep(tasks[i].find, fs, listing))
    /\ UNCHANGED <<fs, listing, config, workspaceFolders, context, console, call>>

\* fs.access of the file the loadLocaleData of a refresh is at resolves, and
\* readFile is called; or it rejects and the file is skipped
RefreshLoadAccess ==
  \E i \in 1..Len(tasks) :
    /\ tasks[i].kind = "refresh"
    /\ tasks[i].stage = "loading"
    /\ tasks[i].await = "access"
    /\ IF CurrentFile(tasks[i].load) \in DOMAIN fs
       THEN /\ tasks' = Replace(tasks, i, [tasks[i] EXCEPT !.await = "readFile"])
            /\ UNCHANGED <<localeData, translationCache, statusBarItem, hoverProvider,
                           isInitialized, isInitializing>>
       ELSE RefreshLoads(i, LoadStep(tasks[i].load, fs))
    /\ UNCHANGED <<fs, listing, config, workspaceFolders, localeFiles, context,
                   console, call>>

\* fs.readFile of the loadLocaleData of a refresh resolves with the content
\* of the moment, which is parsed and merged
RefreshReadFile ==
  \E i \in 1..Len(tasks) :
    /\ tasks[i].kind = "refresh"
    /\ tasks[i].stage = "loading"
    /\ tasks[i].await = "readFile"
    /\ RefreshLoads(i, LoadStep(tasks[i].load, fs))
    /\ UNCHANGED <<fs, listing, config, workspaceFolders, localeFiles, context,
                   console, call>>

\* an await of a refresh resolves
RefreshGoesOn ==
  \/ RefreshRootAccess \/ RefreshGlob \/ RefreshFileAccess \/ RefreshStat
  \/ RefreshLoadAccess \/ RefreshReadFile

\* provideHover over a key: getTranslationsForKey with the tree the provider
\* was created with
Hover ==
  /\ hoverProvider.registered
  /\ \E key \in SessionKeys :
       LET r == getTranslationsForKey(key, hoverProvider.localeData, translationCache)
       IN  /\ translationCache' = r.cache
           /\ call' = [fn |-> "hover", key |-> key, ret |-> r.ret,
                       seen |-> hoverProvider.localeData, current |-> localeData,
                       during |-> MidLoad]
  /\ UNCHANGED <<fs, listing, config, localeFiles, localeData, session, tasks, console>>

\* clearTranslationCache(), exported by translationProvider.js
ClearTranslationCache ==
  /\ translationCache # EmptyFn
  /\ translationCache' = EmptyFn
  /\ UNCHANGED <<fs, listing, config, localeFiles, localeData, session, tasks,
                 console, call>>

\* editTranslation(key) up to the opening of the editor; when the editor
\* throws before it is open the error is shown and no refresh follows
EditTranslation ==
  /\ Active
  /\ Len(tasks) < MaxTasks
  /\ \E key \in SessionKeys :
       /\ call' = [fn |-> "editTranslation", key |-> key,
                   ret |-> editTranslationLookup(key, localeData),
                   seen |-> localeData, current |-> localeData, during |-> MidLoad]
       /\ tasks' = IF getWebviewContent(editTranslationLookup(key, localeData)) = TypeError
                   THEN tasks
                   ELSE Append(tasks, [kind |-> "editor", key |-> key,
                                       localeFiles |-> localeFiles,
                                       availableLocales |-> OKeys(localeData)])
  /\ UNCHANGED <<fs, listing, config, localeFiles, localeData, translationCache,
                 session, console>>

\* the sets of locales whose field the user fills in
Filled == {{"en"}}

\* the values the form submits: "Hola" for the locales in chosen, in the
\* order of availableLocales
Submitted(availableLocales, chosen) ==
  LET picked == SelectIn(availableLocales, chosen)
  IN  [i \in 1..Len(picked) |-> [k |-> picked[i], v |-> "Hola"]]

\* the numbers in use: those of the saves in flight and of their panels,
\* and those of the saves during which a refresh in flight was called
SaveIds ==
  {tasks[i].id : i \in {j \in 1..Len(tasks) : tasks[j].kind = "save"}}
    \cup {tasks[i].panel : i \in {j \in 1..Len(tasks) : tasks[j].kind = "save"}}
    \cup {tasks[i].saving : i \in {j \in 1..Len(tasks) : tasks[j].kind = "refresh"}}

\* the number the next save is known by
FreshSave == CHOOSE n \in 1..(2 * Len(tasks) + 1) : n \notin SaveIds

\* saveTranslation of the save at place i of ts goes on with the entries
\* todo: it awaits its next readFile, or it returns; then the handler of the
\* message closes the panel and resolves the promise of the editor, and
\* editTranslation, unless the promise was resolved before, goes on to
\* refreshLocales, whatever other save of the panel is still running
SaveGoesOn(ts, i, t, todo, log) ==
  LET next == saveUntilRead(t.key, todo, t.localeFiles, log)
      rest == Remove(ts, i)
      others == {j \in 1..Len(rest) : rest[j].kind = "save" /\ rest[j].panel = t.panel}
      closed == [j \in 1..Len(rest) |->
                   IF j \in others THEN [rest[j] EXCEPT !.resolved = TRUE] ELSE rest[j]]
  IN  /\ console' = next.console
      /\ IF Len(next.todo) > 0
         THEN /\ tasks' = Replace(ts, i,
                            [kind |-> "save", key |-> t.key, localeFiles |-> t.localeFiles,
                             availableLocales |-> t.availableLocales,
                             id |-> t.id, panel |-> t.panel, resolved |-> t.resolved,
                             stage |-> "reading", todo |-> next.todo,
                             content |-> Undefined])
              /\ UNCHANGED <<translationCache, statusBarItem, hoverProvider,
                             isInitialized, isInitializing>>
         ELSE IF t.resolved
         THEN /\ tasks' = rest
              /\ UNCHANGED <<translationCache, statusBarItem, hoverProvider,
                             isInitialized, isInitializing>>
         ELSE RefreshCalledAfter("command",
                                 IF others = {} THEN 0
                                 ELSE rest[CHOOSE j \in others : TRUE].id,
                                 closed, config)

\* the editor posts "save": saveTranslation runs up to its first readFile
SavePosted ==
  \E i \in 1..Len(tasks) :
    /\ tasks[i].kind = "editor"
    /\ \E chosen \in Filled :
         SaveGoesOn(tasks, i,
                    [key |-> tasks[i].key, localeFiles |-> tasks[i].localeFiles,
                     availableLocales |-> tasks[i].availableLocales,
                     id |-> FreshSave, panel |-> FreshSave, resolved |-> FALSE],
                    Submitted(tasks[i].availableLocales, chosen), console)
    /\ UNCHANGED <<fs, listing, config, workspaceFolders, localeFiles, localeData,
                   context, call>>

\* the editor posts "save" again while a save of its panel is running and
\* the panel is open: the handler runs a saveTranslation of its own, up to
\* its first readFile
SavePostedAgain ==
  \E i \in 1..Len(tasks) :
    /\ tasks[i].kind = "save"
    /\ ~tasks[i].resolved
    /\ Len(tasks) < MaxTasks
    /\ \E chosen \in Filled :
         SaveGoesOn(Append(tasks, tasks[i]), Len(tasks) + 1,
                    [key |-> tasks[i].key, localeFiles |-> tasks[i].localeFiles,
                     availableLocales |-> tasks[i].availableLocales,
                     id |-> FreshSave, panel |-> tasks[i].panel, resolved |-> FALSE],
                    Submitted(tasks[i].availableLocales, chosen), console)
    /\ UNCHANGED <<fs, listing, config, workspaceFolders, localeFiles, localeData,
                   context, call>>

\* readFile of a save resolves: the data is parsed and changed, and
\* writeFile is called; a file that cannot be read or parsed is reported
\* and the loop goes on
SaveRead ==
  \E i \in 1..Len(tasks) :
    /\ tasks[i].kind = "save"
    /\ tasks[i].stage = "reading"
    /\ LET t == tasks[i]
           target == saveLocaleTarget(t.key, t.todo[1], t.localeFiles)
           made == saveLocaleContent(target, t.todo[1].v, fs)
       IN  IF made.writes
           THEN /\ tasks' = Replace(tasks, i, [t EXCEPT !.stage = "writing",
                                                        !.content = made.content])
                /\ UNCHANGED <<console, translationCache, statusBarItem,
                               hoverProvider, isInitialized, isInitializing>>
           ELSE SaveGoesOn(tasks, i, t, Tail(t.todo),
                           saveLogged(console, made, target.fileInfo))
    /\ UNCHANGED <<fs, listing, config, workspaceFolders, localeFiles, localeData,
                   context, call>>

\* writeFile of a save resolves: the target holds what was made of the
\* content read before, and the loop goes on
SaveWrite ==
  \E i \in 1..Len(tasks) :
    /\ tasks[i].kind = "save"
    /\ tasks[i].stage = "writing"
    /\ LET t == tasks[i]
           fileInfo == saveLocaleTarget(t.key, t.todo[1], t.localeFiles).fileInfo
       IN  /\ fs' = writeFile(fs, fileInfo, t.content)
           /\ SaveGoesOn(tasks, i, t, Tail(t.todo), console)
    /\ UNCHANGED <<listing, config, workspaceFolders, localeFiles, localeData,
                   context, call>>

\* the panel is closed, or "cancel" is posted, while a save of the panel is
\* running: onDidDispose resolves the promise of the editor and
\* editTranslation goes on to refreshLocales
PanelDisposed ==
  \E i \in 1..Len(tasks) :
    /\ tasks[i].kind = "save"
    /\ ~tasks[i].resolved
    /\ Len(tasks) < MaxTasks
    /\ RefreshCalledAfter("command", tasks[i].id,
                          [j \in 1..Len(tasks) |->
                             IF tasks[j].kind = "save" /\ tasks[j].panel = tasks[i].panel
                             THEN [tasks[j] EXCEPT !.resolved = TRUE] ELSE tasks[j]],
                          config)
    /\ UNCHANGED <<fs, listing, config, workspaceFolders, localeFiles, localeData,
                   context, console, call>>

\* the editor posts "cancel" or its panel is closed before any save;
\* editTranslation goes on to refreshLocales
EditorCancel ==
  \E i \in 1..Len(tasks) :
    /\ tasks[i].kind = "editor"
    /\ RefreshCalled("command", i, config)
    /\ UNCHANGED <<fs, listing, config, workspaceFolders, localeFiles, localeData,
                   context, console, call>>

\* deactivate: dispose()
Dispose ==
  /\ Active
  /\ localeData' = <<>>
  /\ localeFiles' = <<>>
  /\ context' = "null"
  /\ isInitialized' = FALSE
  /\ hoverProvider' = [hoverProvider EXCEPT !.registered = FALSE]   \* hoverProvider.dispose()
  /\ UNCHANGED <<fs, listing, config, workspaceFolders, translationCache,
                 statusBarItem, isInitializing, tasks, console, call>>

Next ==
  \/ Initialize
  \/ InitCallback
  \/ RefreshCommand
  \/ ConfigureLocales
  \/ ConfigureAnswered
  \/ ConfigureDismissed
  \/ ConfigureUpdated
  \/ RefreshRootAccess
  \/ RefreshGlob
  \/ RefreshFileAccess
  \/ RefreshStat
  \/ RefreshLoadAccess
  \/ RefreshReadFile
  \/ Hover
  \/ ClearTranslationCache
  \/ EditTranslation
  \/ SavePosted
  \/ SavePostedAgain
  \/ SaveRead
  \/ SaveWrite
  \/ EditorCancel
  \/ PanelDisposed
  \/ Dispose

Spec == Init /\ [][Next]_vars

\* C2: once a refresh has installed a tree, getTranslationsForKey returns for
\* every key, resolved before or not, what an uncached lookup against the
\* tree installed at the time of the call returns.
C2_CacheFollowsRefresh ==
  (call.fn = "hover") => call.ret = lookupTranslations(call.key, call.current)

\* the index of the locale files of the session
FullIndex == findLocaleFiles(<<LocalesRoot>>, FileExtensions, fs, listing)

\* a tree with nothing loaded, or with every locale and every namespace of
\* the index
Complete(tree) ==
  \/ isEmpty(tree)
  \/ LET full == FullIndex
     IN  /\ OKeys(tree) = OKeys(full)
         /\ \A i \in 1..Len(tree) : OKeys(tree[i].v) = OKeys(full[i].v)

\* C3: a hover lookup or an editTranslation lookup, also one that runs while
\* a refresh is loading, works on a complete tree (the one loaded before or
\* the one newly loaded) and never on a tree holding only some locales or
\* namespaces of a load; so do the module's tree and the hover provider's.
C3_AtomicSwap ==
  /\ Complete(localeData)
  /\ Complete(hoverProvider.localeData)
  /\ call.fn \in {"hover", "editTranslation"}
       => /\ Complete(call.seen)
          /\ call.ret = lookupTranslations(call.key, call.seen)

\* editTranslation has looked a key up in a loaded tree while a refresh had
\* loaded en and not yet fr
C3_Witness ==
  /\ call.fn = "editTranslation"
  /\ call.during
  /\ ~isEmpty(call.seen)
  /\ Complete(call.seen)
  /\ "en" \in DOMAIN call.ret

\* the editors and saves whose promise is not resolved yet
NumEditors(ts) ==
  Cardinality({i \in 1..Len(ts) : ts[i].kind = "editor"})
    + Cardinality({ts[i].panel : i \in {j \in 1..Len(ts) :
                                          ts[j].kind = "save" /\ ~ts[j].resolved}})

\* a step in which refreshLocales is called
RefreshBegins ==
  \/ InitCallback \/ RefreshCommand \/ ConfigureUpdated \/ EditorCancel \/ PanelDisposed
  \/ /\ SavePosted \/ SavePostedAgain \/ SaveRead \/ SaveWrite
     /\ NumEditors(tasks') < NumEditors(tasks)

NumRefresh(ts) == Cardinality({i \in 1..Len(ts) : ts[i].kind = "refresh"})

\* a step in which a call of refreshLocales returns
RefreshEnds ==
  \/ RefreshBegins /\ NumRefresh(tasks') = NumRefresh(tasks)
  \/ RefreshGoesOn /\ NumRefresh(tasks') < NumRefresh(tasks)

StatusReady == {TextReady(n) : n \in 0..2}
StatusError == {TextUnconfigured, TextFailed}

\* every refresh ends in Ready or Error
EndsReadyOrError == RefreshEnds => statusBarItem' \in StatusReady \cup StatusError

\* a refresh started with no configured path ends in Error (unconfigured)
UnconfiguredEndsError ==
  (RefreshBegins /\ Len(config') = 0) => statusBarItem' = TextUnconfigured

\* the status stays Error (unconfigured) until a refresh begins
UnconfiguredStays ==
  (statusBarItem = TextUnconfigured /\ statusBarItem' # TextUnconfigured) => RefreshBegins

\* C10: every refresh ends in Ready or Error; a refresh started with no
\* configured locale path ends in the Error (unconfigured) status, and the
\* status stays so until the next refresh begins.
C10_SessionStatus ==
  [][EndsReadyOrError /\ UnconfiguredEndsError /\ UnconfiguredStays]_vars

\* dispose() has run
Disposed == context = "null" /\ statusBarItem # "null"

\* C11: once dispose() has run, nothing loads locale data or registers a
\* provider again: the tree and the file index stay empty and the hover
\* provider stays as dispose left it.
C11_NoReentryAfterDispose ==
  [][Disposed => /\ localeData' = <<>>
                 /\ localeFiles' = <<>>
                 /\ hoverProvider' = hoverProvider]_vars

----------------------------------------------------------------------------
(* findLocaleFiles over workspaces at several places of the file system   *)
(* and configured roots that may overlap                                  *)

\* the directories a workspace may lie in
LocateLeads == {<<"work">>, <<"me", "work">>}

\* the locale files of a workspace at lead
LocateFilesAt(lead) ==
  {Path(lead \o <<"locales", "zh-CN">>, "common", ".json"),
   Path(lead \o <<"locales">>, "en", ".json"),
   Path(lead \o <<"locales", "fr">>, "app", ".ts"),
   Path(lead \o <<"locales", "fr">>, "Index", ".ts"),
   Path(lead \o <<"locales", "zh-CN">>, "index", ".js"),
   Path(lead \o <<"node_modules", "pkg">>, "en", ".json")}

\* the roots that may be configured for a workspace at lead
LocateRootsAt(lead) ==
  {lead \o <<"locales">>, lead, lead \o <<"locales", "zh-CN">>}

\* the most roots configured at once
MaxRoots == 2

\* the most files on the disk of the locator
MaxLocated == 3

RootLists(roots) == UNION {[1..n -> roots] : n \in 1..MaxRoots}

\* the orders in which the walk may yield the files
Walks(files) ==
  {w \in [1..Cardinality(files) -> files] :
     \A i, j \in 1..Cardinality(files) : w[i] = w[j] => i = j}

InitLocate ==
  \E lead \in LocateLeads :
    /\ fs \in {[f \in D |-> JsonDoc(EmptyObj)] :
                 D \in {E \in SUBSET LocateFilesAt(lead) :
                          Cardinality(E) \in 1..MaxLocated}}
    /\ listing \in Walks(DOMAIN fs)
    /\ config \in RootLists(LocateRootsAt(lead))
    /\ localeFiles = <<>>
    /\ localeData = <<>>
    /\ translationCache = EmptyFn
    /\ NotInitialized
    /\ console = {}
    /\ call = [fn |-> "findLocaleFiles", stage |-> "start", find |-> FindStart(<<>>, <<>>)]

\* findLocaleFiles is called with the configured roots and extensions
CallFindLocaleFiles ==
  /\ call.fn = "findLocaleFiles"
  /\ call.stage = "start"
  /\ FindCallBegins(call, config)
  /\ UNCHANGED <<fs, listing, config, localeFiles, localeData, translationCache,
                 session, tasks, console>>

\* a file is removed while findLocaleFiles runs
LocateUnlink ==
  /\ call.fn = "findLocaleFiles"
  /\ call.stage = "finding"
  /\ Cardinality(DOMAIN fs) = Len(listing)
  /\ \E gone \in DOMAIN fs : fs' = [f \in (DOMAIN fs) \ {gone} |-> fs[f]]
  /\ UNCHANGED <<listing, config, localeFiles, localeData, translationCache,
                 session, tasks, console, call>>

NextLocate ==
  \/ CallFindLocaleFiles
  \/ FindRootAccess
  \/ FindGlob
  \/ FindFileAccess
  \/ FindStat
  \/ LocateUnlink

SpecLocate == InitLocate /\ [][NextLocate]_vars

\* how often the file stands in the group (locale, namespace) of the index
InGroup(index, locale, namespace, file) ==
  IF OHas(index, locale) /\ OHas(OGet(index, locale), namespace)
  THEN LET files == OGet(OGet(index, locale), namespace)
       IN  Cardinality({i \in 1..Len(files) : files[i] = file})
  ELSE 0

\* how often the file stands in the index at all
RECURSIVE Listed(_, _)
Listed(index, file) ==
  IF Len(index) = 0 THEN 0
  ELSE LET RECURSIVE inGroups(_)
           inGroups(groups) ==
             IF Len(groups) = 0 THEN 0
             ELSE Cardinality({i \in 1..Len(groups[1].v) : groups[1].v[i] = file})
                  + inGroups(Tail(groups))
       IN  inGroups(index[1].v) + Listed(Tail(index), file)

\* the patterns of the root match the file, and the file is none that is
\* left out for its name or its place (index.*, node_modules)
RootMatches(root, file) ==
  /\ \E e \in 1..Len(FileExtensions) : MatchesPattern(Pattern(root, FileExtensions[e]), file)
  /\ ~Ignored(file)
  /\ ToLowerCase(file.name) # "index"

\* two of the configured roots match the file
Overlapping(file) ==
  \E i, j \in 1..Len(config) :
    i # j /\ RootMatches(config[i], file) /\ RootMatches(config[j], file)

LocateDone == call.fn = "findLocaleFiles" /\ call.stage = "found"

\* C13: a file matched by two overlapping configured roots stands exactly
\* once in the index returned by findLocaleFiles, in its (locale, namespace)
\* group.
C13_LocatorDeduplicates ==
  LocateDone =>
    \A f \in DOMAIN fs :
      Overlapping(f) =>
        /\ Listed(localeFiles, f) = 1
        /\ InGroup(localeFiles, determineLocale(f), determineNamespace(f), f) = 1

\* a file under two different configured roots has been located: two of the
\* patterns handed to fg match it, and it stands once in what fg returned
C13_Witness ==
  /\ LocateDone
  /\ Len(config) = 2 /\ config[1] # config[2]
  /\ \E f \in DOMAIN fs :
       /\ Overlapping(f)
       /\ Cardinality({p \in 1..Len(call.find.patterns) :
                         MatchesPattern(call.find.patterns[p], f)}) = 2
       /\ Cardinality({i \in 1..Len(call.find.files) : call.find.files[i] = f}) = 1
       /\ Listed(localeFiles, f) = 1

\* the last n segments of dir are tail
EndsIn(dir, tail) ==
  /\ Len(dir) >= Len(tail)
  /\ \A i \in 1..Len(tail) : dir[Len(dir) - Len(tail) + i] = tail[i]

\* C14: whatever the leading directories, a located path ending in
\* /locales/zh-CN/common.json is in the group of locale "zh-cn" and namespace
\* "common", and one ending in /locales/en.json in the group of "en" and
\* "common".
C14_LocaleInference ==
  LocateDone =>
    \A f \in DOMAIN fs :
      Listed(localeFiles, f) > 0 =>
        /\ (EndsIn(f.dir, <<"locales", "zh-CN">>) /\ f.name = "common" /\ f.ext = ".json")
             => InGroup(localeFiles, "zh-cn", "common", f) = 1
        /\ (EndsIn(f.dir, <<"locales">>) /\ f.name = "en" /\ f.ext = ".json")
             => InGroup(localeFiles, "en", "common", f) = 1

----------------------------------------------------------------------------
(* translationProvider: parseJsContent.  A document is what acorn makes   *)
(* of its text: the call expressions of the AST in the order of the walk, *)
(* or no AST at all.  A call is its callee and its arguments.             *)

Identifier(name) == [type |-> "Identifier", name |-> name]
ThisExpression == [type |-> "ThisExpression"]
MemberExpression(object, property) ==
  [type |-> "MemberExpression", object |-> object, property |-> property]
Literal(value) == [type |-> "Literal", value |-> value]
CallExpression(callee, arguments) == [callee |-> callee, arguments |-> arguments]

\* the value of a numeric literal
Num(n) == [t |-> "num", n |-> n]

\* typeof value === "string"
IsStringValue(value) == value.t = "str"

\* acorn.parse: the AST, or a SyntaxError
acornParse(content) ==
  IF content.valid THEN [threw |-> FALSE, ast |-> content.calls]
  ELSE [threw |-> TRUE, ast |-> <<>>]

\* the name parseJsContent gives to the function called by node
methodNameOf(node) ==
  IF node.callee.type = "Identifier" THEN node.callee.name
  ELSE IF node.callee.type = "MemberExpression"
  THEN IF node.callee.property.type = "Identifier"
       THEN IF /\ node.callee.object.type = "MemberExpression"
               /\ node.callee.object.property.type = "Identifier"
               /\ node.callee.object.property.name = "global"
            THEN "i18n.global." \o node.callee.property.name
            ELSE IF /\ node.callee.object.type = "Identifier"
                    /\ node.callee.object.name = "i18n"
            THEN "i18n." \o node.callee.property.name
            ELSE node.callee.property.name
       ELSE ""
  ELSE ""

\* a plausible slip: the key is taken from the first string literal among all
\* the arguments
visitCallAnyArgument(node, at, translationMethods) ==
  LET strings == {i \in 1..Len(node.arguments) :
                    /\ node.arguments[i].type = "Literal"
                    /\ IsStringValue(node.arguments[i].value)}
  IN  IF methodNameOf(node) \in translationMethods /\ strings # {}
      THEN <<[key |-> node.arguments[CHOOSE i \in strings : \A j \in strings : i <= j].value.s,
              at |-> at]>>
      ELSE <<>>

\* the CallExpression visitor: the decorations the node at position at adds
visitCall(node, at, translationMethods) ==
  IF methodNameOf(node) \in translationMethods /\ Len(node.arguments) > 0
  THEN LET firstArg == node.arguments[1]
       IN  IF firstArg.type = "Literal" /\ IsStringValue(firstArg.value)
           THEN <<[key |-> firstArg.value.s, at |-> at]>>
           ELSE <<>>
  ELSE <<>>

\* walk.simple over the call expressions from position at on
RECURSIVE walkSimple(_, _, _)
walkSimple(ast, at, translationMethods) ==
  IF at > Len(ast) THEN <<>>
  ELSE visitCall(ast[at], at, translationMethods)
       \o walkSimple(ast, at + 1, translationMethods)

\* a plausible slip: the parse is not guarded, so a SyntaxError reaches the caller
parseJsContentUnguarded(content, translationMethods) ==
  LET parsed == acornParse(content)
  IN  [threw |-> parsed.threw,
       decorations |-> walkSimple(parsed.ast, 1, translationMethods),
       logged |-> FALSE]

\* parseJsContent: the decorations it returns, whether it threw, and whether
\* it logged an error
parseJsContent(content, translationMethods) ==
  LET parsed == acornParse(content)
  IN  IF parsed.threw
      THEN [threw |-> FALSE, decorations |-> <<>>, logged |-> TRUE]
      ELSE [threw |-> FALSE,
            decorations |-> walkSimple(parsed.ast, 1, translationMethods),
            logged |-> FALSE]

\* the callees of the calls in the documents
Callees ==
  {Identifier("t"),
   Identifier("foo"),
   MemberExpression(ThisExpression, Identifier("$t")),
   MemberExpression(Identifier("i18n"), Identifier("t")),
   MemberExpression(Identifier("foo"), Identifier("t")),
   MemberExpression(MemberExpression(Identifier("i18n"), Identifier("global")), Identifier("t")),
   MemberExpression(MemberExpression(Identifier("foo"), Identifier("global")), Identifier("t")),
   MemberExpression(Identifier("foo"), Literal(Str("t")))}

\* the argument lists of the calls
ArgumentLists ==
  {<<>>,
   <<Literal(Str("home.title"))>>,
   <<Literal(Str("nav.back"))>>,
   <<Literal(Num(1))>>,
   <<Identifier("count"), Literal(Str("bar"))>>}

Calls == {CallExpression(c, a) : c \in Callees, a \in ArgumentLists}

\* the most call expressions in a document
MaxCalls == 2

\* this.$t('home.title'); i18n.global.t("nav.back"); foo('bar')
ExampleCalls ==
  <<CallExpression(MemberExpression(ThisExpression, Identifier("$t")), <<Literal(Str("home.title"))>>),
    CallExpression(MemberExpression(MemberExpression(Identifier("i18n"), Identifier("global")),
                                    Identifier("t")), <<Literal(Str("nav.back"))>>),
    CallExpression(Identifier("foo"), <<Literal(Str("bar"))>>)>>

Documents ==
  {[valid |-> v, calls |-> c] :
     v \in BOOLEAN,
     c \in UNION {[1..n -> Calls] : n \in 0..MaxCalls} \cup {ExampleCalls}}

\* the default of devCooker.i18n.translationMethods, and shorter settings
DefaultMethods == {"$t", "$st", "i18n.global.t", "t", "translate"}
MethodSettings == {DefaultMethods, {"i18n.global.t"}, {"global.t"}, {"i18n.t"}}

InitExtract ==
  /\ fs = EmptyFn
  /\ listing = <<>>
  /\ config = <<>>
  /\ localeFiles = <<>>
  /\ localeData = <<>>
  /\ translationCache = EmptyFn
  /\ NotInitialized
  /\ console = {}
  /\ call \in {[fn |-> "parseJsContent", content |-> d, translationMethods |-> m,
                done |-> FALSE, ret |-> [threw |-> FALSE, decorations |-> <<>>,
                                         logged |-> FALSE]] :
                 d \in Documents, m \in MethodSettings}

CallParseJsContent ==
  /\ call.fn = "parseJsContent"
  /\ ~call.done
  /\ call' = [call EXCEPT !.done = TRUE,
                          !.ret = parseJsContent(call.content, call.translationMethods)]
  /\ UNCHANGED <<fs, listing, config, localeFiles, localeData, translationCache,
                 session, tasks, console>>

NextExtract == CallParseJsContent

SpecExtract == InitExtract /\ [][NextExtract]_vars

ExtractDone == call.fn = "parseJsContent" /\ call.done

\* the positions of the calls for which a call site was returned
SitesAt == {call.ret.decorations[i].at : i \in 1..Len(call.ret.decorations)}

\* the first argument of the call is a string literal
FirstIsString(node) ==
  /\ Len(node.arguments) > 0
  /\ node.arguments[1].type = "Literal"
  /\ node.arguments[1].value.t = "str"

\* some argument of the call is a string literal
SomeIsString(node) ==
  \E i \in 1..Len(node.arguments) :
    node.arguments[i].type = "Literal" /\ node.arguments[i].value.t = "str"

\* the called name as the specification resolves it
SpecifiedName(node) ==
  LET callee == node.callee
  IN  IF callee.type = "Identifier" THEN callee.name
      ELSE IF callee.type # "MemberExpression" \/ callee.property.type # "Identifier" THEN ""
      ELSE LET x == callee.object
               b == callee.property.name
           IN  IF x.type = "MemberExpression" /\ x.property = Identifier("global")
               THEN IF x.object = Identifier("i18n")
                    THEN "i18n.global." \o b ELSE "global." \o b
               ELSE IF x = Identifier("i18n") THEN "i18n." \o b
               ELSE b

\* C15: a call x.b(...) with a string literal as first argument is recognized
\* exactly when the name resolved as follows is configured: "global.b" when x
\* is a member access ending in .global whose object is not the identifier
\* i18n, "i18n.global.b" when that object is i18n, "i18n.b" when x is the
\* identifier i18n, and "b" otherwise.
C15_CalledName ==
  (ExtractDone /\ call.content.valid) =>
    \A i \in 1..Len(call.content.calls) :
      FirstIsString(call.content.calls[i]) =>
        (i \in SitesAt <=> SpecifiedName(call.content.calls[i]) \in call.translationMethods)

\* C16 as stated: a call yields a call site exactly when its resolved name is
\* configured and it has at least one string-literal argument, and the key is
\* the value of such a literal.
C16_AnyLiteralArgument ==
  (ExtractDone /\ call.content.valid) =>
    /\ \A i \in 1..Len(call.content.calls) :
         i \in SitesAt <=>
           /\ methodNameOf(call.content.calls[i]) \in call.translationMethods
           /\ SomeIsString(call.content.calls[i])
    /\ \A j \in 1..Len(call.ret.decorations) :
         \E a \in 1..Len(call.content.calls[call.ret.decorations[j].at].arguments) :
           call.content.calls[call.ret.decorations[j].at].arguments[a]
             = Literal(Str(call.ret.decorations[j].key))

\* C16: a call yields exactly one call site if and only if its resolved name is
\* configured and its first argument is a string literal; the key is that
\* literal's value.  The text with this.$t('home.title'),
\* i18n.global.t("nav.back") and foo('bar') yields the keys home.title and
\* nav.back and no other.
C16_FirstLiteralArgument ==
  (ExtractDone /\ call.content.valid) =>
    /\ \A i \in 1..Len(call.content.calls) :
         i \in SitesAt <=>
           /\ methodNameOf(call.content.calls[i]) \in call.translationMethods
           /\ FirstIsString(call.content.calls[i])
    /\ Len(call.ret.decorations) = Cardinality(SitesAt)
    /\ \A j \in 1..Len(call.ret.decorations) :
         call.content.calls[call.ret.decorations[j].at].arguments[1]
           = Literal(Str(call.ret.decorations[j].key))
    /\ (call.content.calls = ExampleCalls /\ call.translationMethods = DefaultMethods)
         => call.ret.decorations = <<[key |-> "home.title", at |-> 1],
                                     [key |-> "nav.back", at |-> 2]>>

\* the example text has been extracted with the default method names
C16_Witness ==
  /\ ExtractDone /\ call.content.valid
  /\ call.content.calls = ExampleCalls
  /\ call.translationMethods = DefaultMethods
  /\ Len(call.ret.decorations) = 2

\* C17: when the text cannot be parsed into an AST, extraction returns no
\* call site and raises nothing, however many translation calls the text
\* holds; the failure is logged.
C17_ParseFailureYieldsNothing ==
  (ExtractDone /\ ~call.content.valid) =>
    /\ call.ret.decorations = <<>>
    /\ ~call.ret.threw
    /\ call.ret.logged

\* a text with two translation calls that does not parse has been extracted
C17_Witness ==
  /\ ExtractDone /\ ~call.content.valid
  /\ Len(call.content.calls) = 2
  /\ \A i \in 1..2 : /\ methodNameOf(call.content.calls[i]) \in call.translationMethods
                     /\ FirstIsString(call.content.calls[i])
  /\ call.ret.decorations = <<>>

----------------------------------------------------------------------------
(* flattenObject applied to one nested object *)

\* property names of the nested objects: plain names, a name with a dot in
\* it ("nav.back"), the empty name and a name that is an array index ("0")
FlatNames == DocNames \cup {<<"nav", "back">>, EmptyStr, <<"0">>}

\* the leaves of the nested objects: no arrays
FlatLeaves == {Str("Hi"), Str("Hola"), Null}

\* the objects with at most two properties, named in FlatNames, and values in vals
FlatObjectsOver(vals) ==
  {Obj(f) : f \in UNION {[D -> vals] :
                           D \in {{}} \cup {{a, b} : a, b \in FlatNames}}}

FlatDocs ==
  {d \in FlatObjectsOver(FlatLeaves \cup FlatObjectsOver(FlatLeaves)) :
     Size(d) <= MaxDocSize}

\* the property names of v and of the objects in it
RECURSIVE NamesIn(_)
NamesIn(v) ==
  IF v.t # "obj" THEN {}
  ELSE DOMAIN v.o \cup UNION {NamesIn(v.o[k]) : k \in DOMAIN v.o}

\* the orders in which the text of an object can have the names
Orders(names) ==
  {o \in [1..Cardinality(names) -> names] :
     \A i, j \in 1..Cardinality(names) : o[i] = o[j] => i = j}

InitFlatten ==
  /\ \E d \in FlatDocs :
       \E o \in Orders(NamesIn(d)) :
         call = [fn |-> "flattenObject", obj |-> d, order |-> o, done |-> FALSE,
                 ret |-> <<>>]
  /\ fs = EmptyFn
  /\ listing = <<>>
  /\ config = <<>>
  /\ localeFiles = <<>>
  /\ localeData = <<>>
  /\ translationCache = EmptyFn
  /\ NotInitialized
  /\ console = {}

CallFlattenObject ==
  /\ call.fn = "flattenObject"
  /\ ~call.done
  /\ call' = [call EXCEPT !.done = TRUE,
                          !.ret = flattenEntries(call.obj, EmptyStr, call.order)]
  /\ UNCHANGED <<fs, listing, config, localeFiles, localeData, translationCache,
                 session, tasks, console>>

NextFlatten == CallFlattenObject

SpecFlatten == InitFlatten /\ [][NextFlatten]_vars

\* the flattened keys are gone through as Object.keys gives them, and the
\* value of each is assigned at the path its key splits into
RECURSIVE RenestFrom(_, _, _)
RenestFrom(acc, flat, keys) ==
  IF Len(keys) = 0 THEN acc
  ELSE RenestFrom(setNestedValue(acc, keys[1], OGet(flat, keys[1])), flat, Tail(keys))

\* re-nesting: each flattened key is split on '.' and its value assigned
Renest(flat) == RenestFrom(EmptyObj, flat, OwnPropertyKeys(OKeys(flat)))

\* a top-level property of v with the empty name holds no non-empty object
\* (its prefix "" is falsy, so the keys below it would lose it)
NoObjectUnderEmptyName(v) ==
  \A k \in DOMAIN v.o :
    k = EmptyStr => (v.o[k].t # "obj" \/ v.o[k] = EmptyObj)

\* no property name of v, at any depth, has a dot in it
NoDottedName(v) == \A k \in NamesIn(v) : Len(k) = 1

\* some top-level property name of v has a dot in it
HasDottedName(v) == \E k \in DOMAIN v.o : Len(k) > 1

FlattenDone == call.fn = "flattenObject" /\ call.done

\* C19 as stated: for any nested object without arrays, flattening it and
\* re-nesting the result by splitting each flattened key on '.' gives an
\* object deep-equal to the original.
C19_RoundTripAnyObject == FlattenDone => Renest(call.ret) = call.obj

\* C19: for any nested object without arrays that has no non-empty object
\* under a top-level property with the empty name and none of whose property
\* names, at any depth, contains '.', flattening it and re-nesting the result
\* key by key, in the order Object.keys gives the flattened keys, gives an
\* object deep-equal to the original; an object with a top-level property
\* name that contains '.' is never reproduced.
C19_RoundTripPlainNames ==
  FlattenDone =>
    /\ (NoObjectUnderEmptyName(call.obj) /\ NoDottedName(call.obj))
         => Renest(call.ret) = call.obj
    /\ HasDottedName(call.obj) => Renest(call.ret) # call.obj

\* an object whose text has a null leaf first and then a nested object
\* under the name "0" has been flattened: for...in gives "0" first, so the
\* flattened object holds the key below "0", then "0" itself and then the
\* leaf in the order of their creation; Object.keys gives "0" before the
\* key below it, and re-nesting gives the object back
C19_Witness ==
  /\ FlattenDone
  /\ call.obj = Obj(<<"greet">> :> Null
                      @@ <<"0">> :> Obj(<<"greet">> :> Str("Hi")))
  /\ call.order = << <<"greet">>, <<"0">> >>
  /\ OKeys(call.ret) = << <<"0", "greet">>, <<"0">>, <<"greet">> >>
  /\ OwnPropertyKeys(OKeys(call.ret)) = << <<"0">>, <<"0", "greet">>, <<"greet">> >>
  /\ OGet(call.ret, <<"0">>) = call.obj.o[<<"0">>]
  /\ Renest(call.ret) = call.obj

----------------------------------------------------------------------------
(* setNestedValue applied to the data of a file and the path of a key *)

\* the namespaces the writer can have selected for the key
SetNamespaces == {"common", "app"}

\* the data of a file whose JSON text is an array
ArrayDocs == {Arr(<<>>), Arr(<<Str("Hi")>>), Arr(<<Obj(<<"greet">> :> Str("Hi"))>>)}

\* the data of a file whose JSON text is a string or null
PrimitiveDocs == {Str("Hi"), Str(""), Null}

InitSet ==
  /\ call \in {[fn |-> "setNestedValue", obj |-> d,
                keys |-> keyPartsOf(k, ns), value |-> Str("Hola"),
                done |-> FALSE, ret |-> Undefined] :
                 d \in Docs \cup ArrayDocs \cup PrimitiveDocs, k \in Keys,
                 ns \in SetNamespaces}
  /\ fs = EmptyFn
  /\ listing = <<>>
  /\ config = <<>>
  /\ localeFiles = <<>>
  /\ localeData = <<>>
  /\ translationCache = EmptyFn
  /\ NotInitialized
  /\ console = {}

\* ret is the object after the call (the function changes it in place), or
\* the TypeError thrown
CallSetNestedValue ==
  /\ call.fn = "setNestedValue"
  /\ ~call.done
  /\ call' = [call EXCEPT !.done = TRUE,
                          !.ret = setNestedValue(call.obj, call.keys, call.value)]
  /\ UNCHANGED <<fs, listing, config, localeFiles, localeData, translationCache,
                 session, tasks, console>>

NextSet == CallSetNestedValue

SpecSet == InitSet /\ [][NextSet]_vars

\* the value found by following path from v
RECURSIVE Follow(_, _)
Follow(v, path) ==
  IF Len(path) = 0 THEN v ELSE Follow(Get(v, <<path[1]>>), Tail(path))

\* after holds, off the path, what before held; an intermediate of the path
\* that was no plain object has been replaced
RECURSIVE OffPathKept(_, _, _)
OffPathKept(before, after, path) ==
  \/ Len(path) = 0
  \/ /\ after.t = "obj"
     /\ OwnKeys(after) = OwnKeys(before) \cup {<<path[1]>>}
     /\ \A k \in OwnKeys(before) \ {<<path[1]>>} : Get(after, k) = Get(before, k)
     /\ LET old == Get(before, <<path[1]>>)
        IN  Len(path) > 1 =>
              OffPathKept(IF old.t = "obj" THEN old ELSE EmptyObj,
                          Get(after, <<path[1]>>), Tail(path))

SetDone == call.fn = "setNestedValue" /\ call.done

\* C20: for any object and any key path the writer derives from a key,
\* after setNestedValue the walk along the path from the root ends at the
\* written value, every intermediate of the path is an object, and every
\* property off the path has the value it had before.
C20_NestedSet ==
  SetDone =>
    /\ Follow(call.ret, call.keys) = call.value
    /\ OffPathKept(call.obj, call.ret, call.keys)

----------------------------------------------------------------------------
(* translationProvider: findVueTranslations.  The text of a Vue file is   *)
(* the calls of its template followed by its script block; the regular    *)
(* expression runs over the whole text, the AST walk over the script.     *)
(* Each call stands on a line of its own: lineText is the characters of   *)
(* the line, with "call" in the place of the text of the call, and        *)
(* inBlock says whether the line begins inside a block comment.           *)

\* the source text of a callee
RECURSIVE sourceOf(_)
sourceOf(node) ==
  CASE node.type = "Identifier" -> Chars(node.name)
    [] node.type = "ThisExpression" -> Chars("this")
    [] node.type = "MemberExpression" ->
         sourceOf(node.object) \o <<".">> \o Chars(node.property.name)

\* how often ch occurs in the names of methods
RECURSIVE Occurrences(_, _)
Occurrences(ch, methods) ==
  IF methods = {} THEN 0
  ELSE LET m == CHOOSE x \in methods : TRUE
       IN  Cardinality({i \in 1..Len(Chars(m)) : Chars(m)[i] = ch})
             + Occurrences(ch, methods \ {m})

\* new RegExp(`(${methodPattern})...`): a SyntaxError when the names leave a
\* group open or close one too many (the names hold no other character
\* that is special in a regular expression, apart from "." and "$")
newRegExp(translationMethods) ==
  [threw |-> Occurrences("(", translationMethods) # Occurrences(")", translationMethods)]

\* one character of an alternative against one character of the text: "."
\* stands for any character, "$" only holds at the end of the text
charMatches(p, c) ==
  IF p = "." THEN TRUE ELSE IF p = "$" THEN FALSE ELSE p = c

\* the alternative m matches the end of the callee's text
alternativeMatches(m, text) ==
  /\ Len(m) <= Len(text)
  /\ \A i \in 1..Len(m) : charMatches(m[i], text[Len(text) - Len(m) + i])

\* templatePattern matches at the call: one of the names, the parenthesis,
\* and a quoted key as the first thing in it
patternMatches(node, translationMethods) ==
  /\ Len(node.arguments) > 0
  /\ node.arguments[1].type = "Literal"
  /\ IsStringValue(node.arguments[1].value)
  /\ \E m \in translationMethods : alternativeMatches(Chars(m), sourceOf(node.callee))

\* String.prototype.indexOf: the first offset at which needle stands in hay
indexOf(hay, needle) ==
  LET at == {i \in 0..(Len(hay) - Len(needle)) : SubSeq(hay, i + 1, i + Len(needle)) = needle}
  IN  IF at = {} THEN 0 - 1 ELSE CHOOSE i \in at : \A j \in at : i <= j

\* isInComment(lineText, character)
isInComment(lineText, character) ==
  LET lineCommentIndex == indexOf(lineText, <<"/", "/">>)
      blockCommentStart == indexOf(lineText, <<"/", "*">>)
      blockCommentEnd == indexOf(lineText, <<"*", "/">>)
  IN  IF lineCommentIndex # -1 /\ character >= lineCommentIndex THEN TRUE
      ELSE /\ blockCommentStart # -1
           /\ character >= blockCommentStart
           /\ (blockCommentEnd = -1 \/ character <= blockCommentEnd)

\* isInStringLiteral(text, position, key)
isInStringLiteral == FALSE

\* matchPos.character: the place of the call on its line
characterOf(lineText) == (CHOOSE i \in 1..Len(lineText) : lineText[i] = "call") - 1

\* the loop over templatePattern.exec(text), from the call at position at
\* on: a match that isInComment takes for a comment is passed over
RECURSIVE execAll(_, _, _)
execAll(calls, at, translationMethods) ==
  IF at > Len(calls) THEN <<>>
  ELSE (IF /\ patternMatches(calls[at], translationMethods)
           /\ ~(\/ isInComment(calls[at].lineText, characterOf(calls[at].lineText))
                \/ isInStringLiteral)
        THEN <<[key |-> calls[at].arguments[1].value.s, at |-> at, by |-> "match"]>>
        ELSE <<>>)
       \o execAll(calls, at + 1, translationMethods)

\* whether the call of the line is program text for the parser: the line
\* is read from its character i on, in program text ("code"), in a block
\* comment ("block") or in a string literal ("string")
RECURSIVE lineIsCodeFrom(_, _, _)
lineIsCodeFrom(lineText, i, mode) ==
  LET next(c) == i < Len(lineText) /\ lineText[i + 1] = c
  IN  IF i > Len(lineText) THEN FALSE
      ELSE IF mode = "block"
      THEN IF lineText[i] = "*" /\ next("/")
           THEN lineIsCodeFrom(lineText, i + 2, "code")
           ELSE lineIsCodeFrom(lineText, i + 1, "block")
      ELSE IF mode = "string"
      THEN lineIsCodeFrom(lineText, i + 1, IF lineText[i] = "'" THEN "code" ELSE "string")
      ELSE IF lineText[i] = "call" THEN TRUE
      ELSE IF lineText[i] = "/" /\ next("/") THEN FALSE
      ELSE IF lineText[i] = "/" /\ next("*") THEN lineIsCodeFrom(lineText, i + 2, "block")
      ELSE lineIsCodeFrom(lineText, i + 1, IF lineText[i] = "'" THEN "string" ELSE "code")

lineIsCode(lineText, inBlock) ==
  lineIsCodeFrom(lineText, 1, IF inBlock THEN "block" ELSE "code")

\* the places in the script of the calls that are program text
codePlaces(calls) ==
  SelectSeq([i \in 1..Len(calls) |-> i],
            LAMBDA i : lineIsCode(calls[i].lineText, calls[i].inBlock))

\* a Vue file without a script block
NoScript == [valid |-> TRUE, calls |-> <<>>, present |-> FALSE]

\* findVueTranslations: the decorations it returns, whether it threw, and
\* whether it logged an error.  The parser is given the script block, of
\* which the AST holds the calls that are program text.
findVueTranslations(text, translationMethods) ==
  LET templatePattern == newRegExp(translationMethods)
      all == text.template \o text.script.calls
      places == codePlaces(text.script.calls)
      scriptContent == [valid |-> text.script.valid,
                        calls |-> [j \in 1..Len(places) |-> text.script.calls[places[j]]]]
      jsDecorations == IF text.script.present
                       THEN parseJsContent(scriptContent, translationMethods)
                       ELSE [threw |-> FALSE, decorations |-> <<>>, logged |-> FALSE]
      shifted == [i \in 1..Len(jsDecorations.decorations) |->
                    [key |-> jsDecorations.decorations[i].key,
                     at |-> Len(text.template) + places[jsDecorations.decorations[i].at],
                     by |-> "literal"]]
  IN  IF templatePattern.threw
      THEN [threw |-> TRUE, decorations |-> <<>>, logged |-> FALSE]
      ELSE [threw |-> FALSE,
            decorations |-> execAll(all, 1, translationMethods) \o shifted,
            logged |-> jsDecorations.logged]

\* the calls of the Vue files
VueCallees ==
  {Identifier("t"),
   Identifier("$t"),
   Identifier("foo"),
   MemberExpression(ThisExpression, Identifier("$t")),
   MemberExpression(MemberExpression(Identifier("i18n"), Identifier("global")), Identifier("t"))}

\* the lines a call stands on:  t('k')  alone, after  //,  before  //,
\* after a string literal that holds  //,  inside  /* */,  after  /* */,
\* and on a later line of a block comment
VueLines ==
  {[lineText |-> <<"call">>, inBlock |-> FALSE],
   [lineText |-> <<"/", "/", " ", "call">>, inBlock |-> FALSE],
   [lineText |-> <<"call", " ", "/", "/">>, inBlock |-> FALSE],
   [lineText |-> <<"'", "/", "/", "'", ";", " ", "call">>, inBlock |-> FALSE],
   [lineText |-> <<"/", "*", " ", "call", " ", "*", "/">>, inBlock |-> FALSE],
   [lineText |-> <<"/", "*", " ", "*", "/", " ", "call">>, inBlock |-> FALSE],
   [lineText |-> <<" ", "*", " ", "call">>, inBlock |-> TRUE]}

VueCalls ==
  {[callee |-> c, arguments |-> a, lineText |-> l.lineText, inBlock |-> l.inBlock] :
     c \in VueCallees,
     a \in {<<Literal(Str("home.title"))>>, <<Literal(Num(1))>>,
            <<Identifier("count"), Literal(Str("bar"))>>},
     l \in VueLines}

\* at most one call in the template and one in the script
VueTexts ==
  {[template |-> t, script |-> sc] :
     t \in {<<>>} \cup {<<c>> : c \in VueCalls},
     sc \in {NoScript} \cup
            {[valid |-> v, calls |-> c, present |-> TRUE] :
               v \in BOOLEAN, c \in {<<>>} \cup {<<x>> : x \in VueCalls}}}

\* settings of devCooker.i18n.translationMethods; the last one has a name
\* that is no method name
VueMethodSettings == {DefaultMethods, {"i18n.global.t"}, {"t", "t("}}

InitVue ==
  /\ fs = EmptyFn
  /\ listing = <<>>
  /\ config = <<>>
  /\ localeFiles = <<>>
  /\ localeData = <<>>
  /\ translationCache = EmptyFn
  /\ NotInitialized
  /\ console = {}
  /\ call \in {[fn |-> "findVueTranslations", text |-> x, translationMethods |-> m,
                done |-> FALSE, ret |-> [threw |-> FALSE, decorations |-> <<>>,
                                         logged |-> FALSE]] :
                 x \in VueTexts, m \in VueMethodSettings}

CallFindVueTranslations ==
  /\ call.fn = "findVueTranslations"
  /\ ~call.done
  /\ call' = [call EXCEPT !.done = TRUE,
                          !.ret = findVueTranslations(call.text, call.translationMethods)]
  /\ UNCHANGED <<fs, listing, config, localeFiles, localeData, translationCache,
                 session, tasks, console>>

NextVue == CallFindVueTranslations

SpecVue == InitVue /\ [][NextVue]_vars

\* C12: call-site extraction never throws to its caller: whatever the text
\* and the configured method names, findVueTranslations returns a list of
\* call sites (empty or partial when something failed).
C12_NothingEscapes ==
  (call.fn = "findVueTranslations" /\ call.done) => ~call.ret.threw

----------------------------------------------------------------------------
(* The editor of a loaded session, with saveTranslation followed from one *)
(* await to the next                                                      *)

\* the session after initialize and its refresh, with one configured path
InitEdit ==
  /\ fs \in SessionDisks
  /\ listing = <<SessionEn, SessionFr>>
  /\ config = <<LocalesRoot>>
  /\ workspaceFolders = <<"work">>
  /\ localeFiles = findLocaleFiles(config, FileExtensions, fs, listing)
  /\ localeData = loadLocaleData(localeFiles, fs)
  /\ translationCache = EmptyFn
  /\ statusBarItem = TextInitDone
  /\ hoverProvider = [registered |-> TRUE, localeData |-> localeData]
  /\ isInitialized = TRUE
  /\ isInitializing = FALSE
  /\ context = "set"
  /\ tasks = <<>>
  /\ console = {}
  /\ call = NoCall

NextEdit ==
  \/ EditTranslation
  \/ SavePosted
  \/ SavePostedAgain
  \/ SaveRead
  \/ SaveWrite
  \/ EditorCancel
  \/ PanelDisposed
  \/ RefreshRootAccess
  \/ RefreshGlob
  \/ RefreshFileAccess
  \/ RefreshStat
  \/ RefreshLoadAccess
  \/ RefreshReadFile

SpecEdit == InitEdit /\ [][NextEdit]_vars

\* a step in which the panel of an editor ends: by cancel or close, or by
\* the end of its save
EditorEnds ==
  /\ SavePosted \/ SavePostedAgain \/ SaveRead \/ SaveWrite \/ EditorCancel
       \/ PanelDisposed
  /\ NumEditors(tasks') < NumEditors(tasks)

\* refreshLocales is called in the step (with a configured path it goes on
\* to findLocaleFiles)
RefreshFollows == NumRefresh(tasks') = NumRefresh(tasks) + 1

\* a refresh called at the end of an editor is reading the locale files
\* while the save of that editor is still running
ReadsWhileWriting ==
  \E i, j \in 1..Len(tasks) :
    /\ tasks[i].kind = "save"
    /\ tasks[j].kind = "refresh"
    /\ tasks[j].saving = tasks[i].id

\* C21: every editTranslation call is followed by a refreshLocales once its
\* editor panel ends (save, cancel or panel closed), and that refresh never
\* reads the locale files while the saveTranslation of the same edit is
\* still writing them.
C21_EditThenRefresh ==
  [][(EditorEnds => RefreshFollows) /\ ~ReadsWhileWriting']_vars

----------------------------------------------------------------------------
(* saveTranslation on a workspace where en has three files, fr one, es none *)

FrameA == Path(<<"work", "locales", "en">>, "common", ".json")
FrameB == Path(<<"work", "locales", "en">>, "app", ".json")
FrameC == Path(<<"work", "locales", "en">>, "common", ".ts")
FrameD == Path(<<"work", "locales", "fr">>, "common", ".json")

FrameDisks ==
  {(FrameA :> JsonDoc(a)) @@ (FrameB :> JsonDoc(EmptyObj)) @@ (FrameC :> c)
     @@ (FrameD :> JsonDoc(Obj(<<"greet">> :> Str("Salut")))) :
     a \in SmallDocs,
     c \in {JsExportDefault(Obj(<<"greet">> :> Str("Hi"))), JsExportDefault(EmptyObj),
            JsExportDefaultBlank, JsExportDefaultThrowing, JsNoExport}}

\* the orders in which the files are found
FrameListings ==
  {<<FrameA, FrameB, FrameC, FrameD>>, <<FrameC, FrameB, FrameA, FrameD>>,
   <<FrameB, FrameA, FrameC, FrameD>>}

\* the submitted objects: values for en, fr and es, some of them empty
FrameTranslations ==
  LET en(v) == [k |-> "en", v |-> v]
      fr(v) == [k |-> "fr", v |-> v]
      es(v) == [k |-> "es", v |-> v]
  IN  {<<en("Hola"), fr(""), es("Hola")>>, <<en("Hola"), fr("Salut")>>,
       <<fr(""), es("Hola")>>, <<en(""), fr("Salut"), es("Hola")>>}

InitFrame ==
  /\ fs \in FrameDisks
  /\ listing \in FrameListings
  /\ config = <<LocalesRoot>>
  /\ localeFiles = findLocaleFiles(config, FileExtensions, fs, listing)
  /\ localeData = loadLocaleData(localeFiles, fs)
  /\ call \in {[fn |-> "saveTranslation", key |-> k, translations |-> t,
                before |-> EmptyFn, stage |-> "start", ret |-> EmptyFn,
                todo |-> <<>>, content |-> Undefined] :
                 k \in {e \in Keys :
                          getWebviewContent(editTranslationLookup(e, localeData))
                            # TypeError},
                 t \in FrameTranslations}
  /\ translationCache = EmptyFn
  /\ NotInitialized
  /\ console = {}

NextFrame == CallSaveTranslation \/ SaveTranslationRead \/ SaveTranslationWrite

SpecFrame == InitFrame /\ [][NextFrame]_vars

FrameDone == call.fn = "saveTranslation" /\ call.stage = "saved"

\* the files whose content is not what it was before the call
Changed == {f \in DOMAIN fs : fs[f] # call.before[f]}

\* the value submitted for the locale, empty when there is none
SubmittedFor(locale) ==
  IF \E i \in 1..Len(call.translations) : call.translations[i].k = locale
  THEN BatchValue(locale) ELSE ""

\* C22: saveTranslation changes at most one file per locale, and only the
\* selected target; no file of a locale whose submitted value is empty or
\* that has no locale file changes, nor any other file of a written locale,
\* and no file appears or disappears.
C22_WriterFrame ==
  FrameDone =>
    /\ DOMAIN fs = DOMAIN call.before
    /\ \A locale \in {"en", "fr", "es"} :
         LET mine == {f \in Changed : determineLocale(f) = locale}
         IN  /\ Cardinality(mine) <= 1
             /\ (SubmittedFor(locale) = "" \/ ~OHas(localeFiles, locale)) => mine = {}
             /\ mine # {} => mine = {TargetOf(locale)}

\* en has been written to one of its three files, while fr was submitted
\* empty and es has no file
C22_Witness ==
  /\ FrameDone
  /\ call.translations[1] = [k |-> "en", v |-> "Hola"]
  /\ SubmittedFor("fr") = "" /\ SubmittedFor("es") = "Hola"
  /\ Cardinality(Changed) = 1
  /\ Changed = {TargetOf("en")}
  /\ fs[FrameD] = call.before[FrameD]

----------------------------------------------------------------------------
(* the locale keys of the file index and of the loaded data, for file     *)
(* names and directories in lower and upper case                          *)

CaseFiles ==
  {Path(<<"work", "locales">>, "EN", ".json"),
   Path(<<"work", "locales">>, "en", ".json"),
   Path(<<"work", "locales", "zh-CN">>, "common", ".json"),
   Path(<<"work", "locales", "fr">>, "app", ".ts")}

InitCase ==
  /\ fs \in {[f \in D |-> IF f.ext = ".json" THEN JsonDoc(EmptyObj)
                          ELSE JsExportDefault(Obj(<<"greet">> :> Str("Salut")))] :
               D \in SUBSET CaseFiles \ {{}}}
  /\ listing \in Walks(DOMAIN fs)
  /\ config \in RootLists(LocateRootsAt(<<"work">>))
  /\ localeFiles = <<>>
  /\ localeData = <<>>
  /\ translationCache = EmptyFn
  /\ NotInitialized
  /\ console = {}
  /\ call = [fn |-> "findLocaleFiles", stage |-> "start", find |-> FindStart(<<>>, <<>>)]

\* refreshLocales: the data is loaded from the index that was just found
CaseLoadLocaleData ==
  /\ call.fn = "findLocaleFiles"
  /\ call.stage = "found"
  /\ LoadCallBegins([fn |-> "loadLocaleData", stage |-> "start",
                      load |-> LoadStart(<<>>), await |-> "none", seen |-> EmptyFn],
                     localeFiles)
  /\ UNCHANGED <<fs, listing, config, localeFiles, translationCache,
                 session, tasks, console>>

NextCase ==
  \/ CallFindLocaleFiles
  \/ FindRootAccess
  \/ FindGlob
  \/ FindFileAccess
  \/ FindStat
  \/ CaseLoadLocaleData
  \/ LoadAccess
  \/ LoadReadFile

SpecCase == InitCase /\ [][NextCase]_vars

\* the keys of the ordered object are all in lower case
LowerCaseKeys(m) == \A i \in 1..Len(m) : ToLowerCase(m[i].k) = m[i].k

\* C23: every locale that is a key of the file index or of the loaded locale
\* data is in lower case, whichever rule of determineLocale produced it.
C23_LocalesLowerCase ==
  LowerCaseKeys(localeFiles) /\ LowerCaseKeys(localeData)

----------------------------------------------------------------------------
(* findVueTranslations: the offset of the script block.  Here the text of *)
(* a Vue file is its characters: some lines, the opening tag with or      *)
(* without an attribute, the statements of the script, the closing tag.   *)

\* one statement of the script:  callee('key');  after pad blanks
StatementText(st) ==
  [i \in 1..st.pad |-> " "] \o Chars(st.callee) \o <<"(", "'", st.key, "'", ")", ";">>

RECURSIVE ScriptText(_)
ScriptText(statements) ==
  IF statements = <<>> THEN <<>>
  ELSE StatementText(statements[1]) \o ScriptText(Tail(statements))

\* what acorn.parse makes of the script: its call expressions, and the
\* offsets start and end of the literal of the k-th call in the content
ScriptAst(statements) ==
  [valid |-> TRUE,
   calls |-> [k \in 1..Len(statements) |->
                CallExpression(Identifier(statements[k].callee),
                               <<Literal(Str(statements[k].key))>>)]]
LiteralStart(statements, k) ==
  Len(ScriptText(SubSeq(statements, 1, k - 1)))
    + statements[k].pad + Len(Chars(statements[k].callee)) + 1
LiteralEnd(statements, k) == LiteralStart(statements, k) + 3

\* the opening tag  <script>  or  <script x="...">
OpenTag(attr) ==
  <<"<", "s", "c", "r", "i", "p", "t">>
    \o (IF attr.present THEN <<" ", "x", "=", "\"">> \o attr.value \o <<"\"">> ELSE <<>>)
    \o <<">">>
CloseTag == <<"<", "/", "s", "c", "r", "i", "p", "t", ">">>

DocumentText(doc) ==
  [i \in 1..doc.lead |-> "\n"] \o OpenTag(doc.attr) \o ScriptText(doc.script) \o CloseTag

\* text.match(/<script(?:\s+[^>]*)?>([\s\S]*?)<\/script>/i) on the documents
\* of the model, which hold one script block
scriptMatchOf(doc) ==
  [index |-> doc.lead,
   whole |-> OpenTag(doc.attr) \o ScriptText(doc.script) \o CloseTag,
   content |-> ScriptText(doc.script)]

\* the script part of findVueTranslations: the ranges of the decorations
\* parseJsContent returns for the block at scriptOffset
findVueScriptRanges(doc, translationMethods) ==
  LET scriptMatch == scriptMatchOf(doc)
      scriptContent == scriptMatch.content
      scriptOffset == scriptMatch.index + indexOf(scriptMatch.whole, scriptContent)
      jsDecorations == parseJsContent(ScriptAst(doc.script), translationMethods).decorations
  IN  IF scriptContent = <<>> THEN <<>>
      ELSE [i \in 1..Len(jsDecorations) |->
              [key |-> jsDecorations[i].key,
               call |-> jsDecorations[i].at,
               start |-> LiteralStart(doc.script, jsDecorations[i].at) + scriptOffset,
               end |-> LiteralEnd(doc.script, jsDecorations[i].at) + scriptOffset]]

\* the most lines before the script block, and the most statements in it
MaxLead == 2
MaxStatements == 2

Statements == [pad : 0..1, callee : {"t", "foo"}, key : {"a", "b"}]
Scripts == UNION {[1..n -> Statements] : n \in 0..MaxStatements}
Attributes ==
  {[present |-> FALSE, value |-> <<>>], [present |-> TRUE, value |-> <<"t", "s">>]}
    \cup {[present |-> TRUE, value |-> StatementText(st)] : st \in Statements}

OffsetDocuments == [lead : 0..MaxLead, attr : Attributes, script : Scripts]

InitOffset ==
  /\ fs = EmptyFn
  /\ listing = <<>>
  /\ config = <<>>
  /\ localeFiles = <<>>
  /\ localeData = <<>>
  /\ translationCache = EmptyFn
  /\ NotInitialized
  /\ console = {}
  /\ call \in {[fn |-> "findVueScriptRanges", doc |-> d, done |-> FALSE, ret |-> <<>>] :
                 d \in OffsetDocuments}

CallFindVueScriptRanges ==
  /\ call.fn = "findVueScriptRanges"
  /\ ~call.done
  /\ call' = [call EXCEPT !.done = TRUE,
                          !.ret = findVueScriptRanges(call.doc, DefaultMethods)]
  /\ UNCHANGED <<fs, listing, config, localeFiles, localeData, translationCache,
                 session, tasks, console>>

NextOffset == CallFindVueScriptRanges

SpecOffset == InitOffset /\ [][NextOffset]_vars

OffsetDone == call.fn = "findVueScriptRanges" /\ call.done

\* the offset in the document at which the content of the script block starts
TrueScriptStart(doc) == doc.lead + Len(OpenTag(doc.attr))

\* the text of the document between two offsets
TextAt(doc, start, end) == SubSeq(DocumentText(doc), start + 1, end)

\* the text at the range of the site is the quoted key
RangeHoldsLiteral(doc, site) ==
  TextAt(doc, site.start, site.end) = <<"'", site.key, "'">>

\* the range of the site is that of the literal of its call in the block
RangeIsOfItsCall(doc, site) ==
  /\ site.start = LiteralStart(doc.script, site.call) + TrueScriptStart(doc)
  /\ site.end = LiteralEnd(doc.script, site.call) + TrueScriptStart(doc)

\* C24: for every call site found in the script block, the range is the
\* literal's start and end in the block plus the offset at which the block's
\* content starts in the document, so the text at the range is the literal.
C24_ScriptOffsets ==
  OffsetDone =>
    \A i \in 1..Len(call.ret) :
      RangeIsOfItsCall(call.doc, call.ret[i]) /\ RangeHoldsLiteral(call.doc, call.ret[i])

----------------------------------------------------------------------------
(* Overlapping calls of refreshLocales while the configured paths change  *)
(* between two directories                                                *)

EnRoot == <<"work", "locales", "en">>

\* the settings of devCooker.i18n.localesPaths
OverlapConfigs == {<<LocalesRoot>>, <<EnRoot>>}

InitOverlap ==
  /\ fs \in SessionDisks
  /\ listing = <<SessionEn, SessionFr>>
  /\ config \in OverlapConfigs
  /\ localeFiles = <<>>
  /\ localeData = <<>>
  /\ translationCache = EmptyFn
  /\ NotInitialized
  /\ console = {}
  /\ call = NoCall

\* the input box of configureLocales is answered with one of the directories
ConfigurePaths ==
  \E i \in 1..Len(tasks) : \E paths \in OverlapConfigs : InputAnswered(i, paths)

NextOverlap ==
  \/ Initialize
  \/ InitCallback
  \/ RefreshCommand
  \/ ConfigureLocales
  \/ ConfigurePaths
  \/ ConfigureDismissed
  \/ ConfigureUpdated
  \/ RefreshRootAccess
  \/ RefreshGlob
  \/ RefreshFileAccess
  \/ RefreshStat
  \/ RefreshLoadAccess
  \/ RefreshReadFile
  \/ EditTranslation
  \/ EditorCancel

SpecOverlap == InitOverlap /\ [][NextOverlap]_vars

\* initialize has run and no call of refreshLocales is in flight or to come
AllRefreshesDone ==
  /\ isInitialized
  /\ \A i \in 1..Len(tasks) : tasks[i].kind = "editor"

\* the index is the one a refresh finds under the configured paths
IndexOfLatestConfig ==
  localeFiles = findLocaleFiles(config, FileExtensions, fs, listing)

\* the data is the one a refresh loads from the session's index
DataOfIndex == localeData = loadLocaleData(localeFiles, fs)

\* C25: once all the overlapping calls of refreshLocales have finished, the
\* file index and the locale data of the session were produced by the same
\* refresh, the one that read the most recent configuration.
C25_OverlappingRefreshes ==
  AllRefreshesDone => (IndexOfLatestConfig /\ DataOfIndex)

----------------------------------------------------------------------------
(* The hover provider of the session and the data of later refreshes      *)

\* a step of a session in use in which a refreshLocales that has loaded
\* data returns
RefreshEndsLoaded ==
  /\ RefreshGoesOn
  /\ NumRefresh(tasks') < NumRefresh(tasks)
  /\ Active

\* a hover provider is registered
ProviderRegistered == hoverProvider.registered

\* the registered provider resolves against the session's data
ProviderSeesCurrent == hoverProvider.localeData = localeData

\* C26: after any refreshLocales that ends with non-empty locale data a hover
\* provider is registered, and it resolves keys against the data loaded
\* last, not against the data that was current when it was created.
C26_HoverFollowsRefresh ==
  [][(RefreshEndsLoaded /\ ~isEmpty(localeData'))
       => (ProviderRegistered' /\ ProviderSeesCurrent')]_vars

----------------------------------------------------------------------------
(* initialize, its deferred callback, refreshLocales and dispose, with    *)
(* the timer firing and the file reads returning in the end               *)

NextStartup ==
  \/ Initialize
  \/ InitCallback
  \/ RefreshCommand
  \/ ConfigureLocales
  \/ ConfigureAnswered
  \/ ConfigureDismissed
  \/ ConfigureUpdated
  \/ RefreshRootAccess
  \/ RefreshGlob
  \/ RefreshFileAccess
  \/ RefreshStat
  \/ RefreshLoadAccess
  \/ RefreshReadFile
  \/ Dispose

\* the refreshLocales awaited by the callback of initialize, if in flight
InitRefresh(ts) ==
  {ts[i] : i \in {j \in 1..Len(ts) : ts[j].kind = "refresh" /\ ts[j].owner = "init"}}

\* an await of the refreshLocales of the callback of initialize resolves
InitRefreshGoesOn ==
  /\ RefreshGoesOn
  /\ InitRefresh(tasks') # InitRefresh(tasks)

\* the timer of initialize fires, and each await of the refresh it starts
\* resolves
SpecStartup ==
  /\ Init
  /\ [][NextStartup]_vars
  /\ WF_vars(InitCallback)
  /\ WF_vars(InitRefreshGoesOn)

\* C27: after initialize has been called on an uninitialized session, under
\* every interleaving with refreshLocales and dispose the deferred
\* initialization ends with isInitializing false.
C27_InitCompletes == isInitializing ~> ~isInitializing

----------------------------------------------------------------------------
(* initialize called again and again, with no dispose: what it creates    *)

\* a plausible slip: only a finished initialization stops a later call
initializeGuardNoPending(initialized, initializing) == initialized

\* if (isInitialized || isInitializing) return;
initializeGuard(initialized, initializing) == initialized \/ initializing

\* the most calls of initialize
MaxInitCalls == 3

InitOnce ==
  /\ fs \in SessionDisks
  /\ listing = <<SessionEn, SessionFr>>
  /\ config \in {<<>>, <<LocalesRoot>>}
  /\ localeFiles = <<>>
  /\ localeData = <<>>
  /\ translationCache = EmptyFn
  /\ NotInitialized
  /\ console = {}
  /\ call = [fn |-> "initialize", calls |-> 0, created |-> 0, whilePending |-> FALSE]

\* initialize(_context), by any command: call.created counts the status bar
\* items and decorators created, and the callbacks scheduled
InitializeCall ==
  /\ call.fn = "initialize"
  /\ call.calls < MaxInitCalls
  /\ IF initializeGuard(isInitialized, isInitializing)
     THEN /\ call' = [call EXCEPT !.calls = @ + 1, !.whilePending = @ \/ isInitializing]
          /\ UNCHANGED <<isInitializing, context, statusBarItem, tasks>>
     ELSE /\ isInitializing' = TRUE
          /\ context' = "set"
          /\ statusBarItem' = TextLoading
          /\ tasks' = Append(tasks, [kind |-> "timer"])
          /\ call' = [call EXCEPT !.calls = @ + 1, !.created = @ + 1]
  /\ UNCHANGED <<fs, listing, config, workspaceFolders, localeFiles, localeData,
                 translationCache, hoverProvider, isInitialized, console>>

NextOnce ==
  \/ InitializeCall
  \/ InitCallback
  \/ RefreshCommand
  \/ ConfigureLocales
  \/ ConfigureAnswered
  \/ ConfigureDismissed
  \/ ConfigureUpdated
  \/ RefreshRootAccess
  \/ RefreshGlob
  \/ RefreshFileAccess
  \/ RefreshStat
  \/ RefreshLoadAccess
  \/ RefreshReadFile

SpecOnce == InitOnce /\ [][NextOnce]_vars

\* the callbacks of initialize that have not run to their end
PendingCallbacks(ts) ==
  Cardinality({i \in 1..Len(ts) :
                 \/ ts[i].kind = "timer"
                 \/ ts[i].kind = "refresh" /\ ts[i].owner = "init"})

\* C28: over any sequence of initialize calls with no dispose in between,
\* also calls made while an earlier initialization is pending, the status
\* bar item and the decorator are created at most once and one callback is
\* scheduled; the hover provider is registered only when there is none, and
\* the listeners are added only in the one step that sets isInitialized.
C28_SingleInitialization ==
  [][/\ call'.created <= 1
     /\ PendingCallbacks(tasks') <= 1
     /\ (hoverProvider' # hoverProvider) => ~hoverProvider.registered
     /\ (isInitialized' # isInitialized) => (~isInitialized /\ isInitializing)]_vars

\* initialize has been called three times, once of them while the first
\* call's callback was pending, and the session is initialized with a hover
\* provider
C28_Witness ==
  /\ call.fn = "initialize"
  /\ call.calls = MaxInitCalls
  /\ call.whilePending
  /\ call.created = 1
  /\ isInitialized
  /\ hoverProvider.registered

----------------------------------------------------------------------------
(* The translations the editor is opened with and those the hover shows   *)

\* what getTranslationsForKey returns for the key in the present state
HoverResult(key) == getTranslationsForKey(key, localeData, translationCache).ret

\* what editTranslation looks up for the key in the present state
EditorResult(key) == editTranslationLookup(key, localeData)

\* C29: in every state of a session in use and for every non-empty key, the
\* translations editTranslation looks up and passes to the editor are the
\* result getTranslationsForKey returns for the key at that moment.
C29_EditorAgreesWithHover ==
  Active => \A key \in SessionKeys : EditorResult(key) = HoverResult(key)

----------------------------------------------------------------------------
(* The decorations of one call expression of a Vue file                   *)

VueDone == call.fn = "findVueTranslations" /\ call.done

\* the decorations returned for the call at position at of the text
DecorationsOf(at) ==
  {i \in 1..Len(call.ret.decorations) : call.ret.decorations[i].at = at}

\* the positions of the calls of the text: the template's, then the script's
CallPositions == 1..(Len(call.text.template) + Len(call.text.script.calls))

\* C30: in a Vue document each translation call, in the template or in the
\* script block, gets at most one decoration: the scan of the text and the
\* walk of the AST never both report the same call.
C30_OneDecorationPerCall ==
  VueDone => \A at \in CallPositions : Cardinality(DecorationsOf(at)) <= 1

====
